---- MODULE Spec2Model ----
(***************************************************************************)
(* Command argument parsing and binding of watzon/macron.                   *)
(*                                                                          *)
(* A Go string is a sequence of one-character strings; a Go pointer or an   *)
(* interface that may be nil is a sequence of length 0 (nil) or 1.          *)
(* Scan positions are 0-based as in the source: At(runes, i) is runes[i].   *)
(***************************************************************************)
EXTENDS Integers, Sequences, FiniteSets, TLC

(***************************************************************************)
(* Bounds of the model.                                                     *)
(***************************************************************************)
\* the texts of a specification are at most MaxWords words joined by ' '
MaxWords == 4

(***************************************************************************)
(* ArgumentType, ArgumentKind (part_000 lines 14-33).                       *)
(***************************************************************************)
TypeString == "TypeString"
TypeInt == "TypeInt"
TypeFloat == "TypeFloat"
TypeBool == "TypeBool"
TypeEntity == "TypeEntity"
TypeReply == "TypeReply"
TypeDuration == "TypeDuration"

KindPositional == "KindPositional"
KindNamed == "KindNamed"

\* ArgumentDefinition{Name, Type, Kind, Required, Default}; Default is an
\* interface{}: <<>> is nil, <<v>> holds the value v
ArgumentDefinition(name, type, kind, required, default) ==
    [Name |-> name, Type |-> type, Kind |-> kind, Required |-> required,
     Default |-> default]

\* ParsedArgument{Name, Value, RawValue}
ParsedArgument(name, value, raw) ==
    [Name |-> name, Value |-> value, RawValue |-> raw]

\* ArgumentError{Argument, Message}
ArgumentError(argument, message) ==
    [Argument |-> argument, Message |-> message]

(***************************************************************************)
(* Values behind interface{}: a tag and a payload.                          *)
(***************************************************************************)
NilValue == [t |-> "nil", v |-> 0]
StringValue(s) == [t |-> "string", v |-> s]
IntValue(i) == [t |-> "int", v |-> i]
FloatValue(m, e) == [t |-> "float64", v |-> <<m, e>>]
BoolValue(b) == [t |-> "bool", v |-> b]
DurationValue(d) == [t |-> "hdur.Duration", v |-> d]

(***************************************************************************)
(* Characters and strings.                                                  *)
(***************************************************************************)
At(runes, i) == runes[i + 1]

Digits == {"0", "1", "2", "3", "4", "5", "6", "7", "8", "9"}

DigitVal(c) ==
    CASE c = "0" -> 0 [] c = "1" -> 1 [] c = "2" -> 2 [] c = "3" -> 3
      [] c = "4" -> 4 [] c = "5" -> 5 [] c = "6" -> 6 [] c = "7" -> 7
      [] c = "8" -> 8 [] c = "9" -> 9

AllDigits(s) == Len(s) > 0 /\ \A i \in 1..Len(s) : s[i] \in Digits

RECURSIVE DecimalVal(_)
DecimalVal(s) ==
    IF s = <<>> THEN 0
    ELSE 10 * DecimalVal(SubSeq(s, 1, Len(s) - 1)) + DigitVal(s[Len(s)])

\* unicode.IsSpace over the characters the texts are made of
WhiteSpace == {" ", "\n", "\t", "\r"}

RECURSIVE TrimLeft(_)
TrimLeft(s) ==
    IF s # <<>> /\ s[1] \in WhiteSpace THEN TrimLeft(Tail(s)) ELSE s

RECURSIVE TrimRight(_)
TrimRight(s) ==
    IF s # <<>> /\ s[Len(s)] \in WhiteSpace
    THEN TrimRight(SubSeq(s, 1, Len(s) - 1)) ELSE s

\* strings.TrimSpace
TrimSpace(s) == TrimRight(TrimLeft(s))

\* strings.HasPrefix, strings.TrimPrefix
HasPrefix(s, p) == Len(s) >= Len(p) /\ SubSeq(s, 1, Len(p)) = p
TrimPrefix(s, p) == IF HasPrefix(s, p) THEN SubSeq(s, Len(p) + 1, Len(s)) ELSE s

(***************************************************************************)
(* strconv.Atoi, strconv.ParseFloat, strconv.ParseBool, as parseValue uses  *)
(* them. The texts of the model are too short to overflow an int.           *)
(***************************************************************************)
Unsigned(s) == IF s # <<>> /\ s[1] \in {"+", "-"} THEN Tail(s) ELSE s
Negative(s) == s # <<>> /\ s[1] = "-"

AtoiOk(s) == AllDigits(Unsigned(s))
AtoiVal(s) ==
    IF Negative(s) THEN 0 - DecimalVal(Unsigned(s)) ELSE DecimalVal(Unsigned(s))

\* index of the exponent marker of a decimal float, 0 when there is none
ExpAt(s) ==
    IF \E i \in 1..Len(s) : s[i] \in {"e", "E"}
    THEN CHOOSE i \in 1..Len(s) :
            s[i] \in {"e", "E"} /\ \A j \in 1..(i - 1) : s[j] \notin {"e", "E"}
    ELSE 0

FloatMantissa(s) ==
    IF ExpAt(Unsigned(s)) = 0 THEN Unsigned(s)
    ELSE SubSeq(Unsigned(s), 1, ExpAt(Unsigned(s)) - 1)
FloatExponent(s) ==
    IF ExpAt(Unsigned(s)) = 0 THEN <<"0">>
    ELSE SubSeq(Unsigned(s), ExpAt(Unsigned(s)) + 1, Len(Unsigned(s)))

\* the decimal form without a fraction point: the texts of the model hold
\* no '.', and none of the words "inf", "infinity", "nan", "0x"
ParseFloatOk(s) == AllDigits(FloatMantissa(s)) /\ AtoiOk(FloatExponent(s))

RECURSIVE Normalize(_, _)
Normalize(m, e) ==
    IF m = 0 THEN <<0, 0>>
    ELSE IF m % 10 = 0 THEN Normalize(m \div 10, e + 1) ELSE <<m, e>>

\* the value m * 10^e, in lowest terms
ParseFloatVal(s) ==
    LET n == Normalize(DecimalVal(FloatMantissa(s)), AtoiVal(FloatExponent(s)))
        sign == IF Negative(s) THEN 0 - 1 ELSE 1
    IN FloatValue(sign * n[1], n[2])

TrueLiterals ==
    {<<"1">>, <<"t">>, <<"T">>, <<"T", "R", "U", "E">>,
     <<"t", "r", "u", "e">>, <<"T", "r", "u", "e">>}
FalseLiterals ==
    {<<"0">>, <<"f">>, <<"F">>, <<"F", "A", "L", "S", "E">>,
     <<"f", "a", "l", "s", "e">>, <<"F", "a", "l", "s", "e">>}
ParseBoolOk(s) == s \in TrueLiterals \cup FalseLiterals
ParseBoolVal(s) == s \in TrueLiterals

(***************************************************************************)
(* hdur.ParseDuration: <integer><unit> pairs written without separators.    *)
(* A duration is the count of each unit; Duration{} holds only zeros.       *)
(***************************************************************************)
DurationUnits == {"m", "h", "d", "w"}
ZeroDuration == [u \in DurationUnits |-> 0]

RECURSIVE ParseDurationFrom(_, _, _)
\* the pairs of s read so far are in d, the digits of the open pair in n
ParseDurationFrom(s, n, d) ==
    IF s = <<>> THEN (IF n = <<>> THEN <<d>> ELSE <<>>)
    ELSE IF s[1] \in Digits THEN ParseDurationFrom(Tail(s), Append(n, s[1]), d)
    ELSE IF s[1] \in DurationUnits /\ n # <<>>
         THEN ParseDurationFrom(Tail(s), <<>>,
                                [d EXCEPT ![s[1]] = @ + DecimalVal(n)])
    ELSE <<>>

ParseDurationOk(s) == s # <<>> /\ ParseDurationFrom(s, <<>>, ZeroDuration) # <<>>
ParseDurationVal(s) == ParseDurationFrom(s, <<>>, ZeroDuration)[1]

\* Duration.IsZero
IsZero(d) == d = ZeroDuration

(***************************************************************************)
(* parseValue (part_000 lines 311-336): <<value, error>>, error <<>> is nil *)
(***************************************************************************)
parseValue(value, argType) ==
    CASE argType = TypeString -> <<StringValue(value), <<>>>>
      [] argType = TypeInt ->
            IF AtoiOk(value) THEN <<IntValue(AtoiVal(value)), <<>>>>
            ELSE <<IntValue(0), <<"strconv.Atoi: invalid syntax">>>>
      [] argType = TypeFloat ->
            IF ParseFloatOk(value) THEN <<ParseFloatVal(value), <<>>>>
            ELSE <<FloatValue(0, 0), <<"strconv.ParseFloat: invalid syntax">>>>
      [] argType = TypeBool ->
            IF ParseBoolOk(value) THEN <<BoolValue(ParseBoolVal(value)), <<>>>>
            ELSE <<BoolValue(FALSE), <<"strconv.ParseBool: invalid syntax">>>>
      [] argType = TypeEntity -> <<StringValue(value), <<>>>>
      [] argType = TypeReply -> <<NilValue, <<>>>>
      [] argType = TypeDuration ->
            IF ParseDurationOk(value)
            THEN <<DurationValue(ParseDurationVal(value)), <<>>>>
            ELSE <<NilValue, <<"hdur: invalid duration">>>>
      [] OTHER -> <<NilValue, <<"unsupported argument type">>>>

(***************************************************************************)
(* The state: one call of the quote-aware ParseArguments                    *)
(* (part_000 lines 339-548), its parameters, locals and result.             *)
(***************************************************************************)
VARIABLES
    text,             \* parameter text
    defs,             \* parameter defs: a sequence of ArgumentDefinition
    msg,              \* parameter msg *types.Message: <<>> is nil
    pos,              \* scan position in runes
    positionalCount,  \* number of KindPositional definitions
    positionalIndex,  \* number of positional values bound so far
    args,             \* the *Arguments under construction
    ret,              \* the returned *Arguments: <<>> is nil
    err,              \* the returned error: <<>> is nil
    pc,               \* "idle", "start", "scan", "required", "done", ...
    variant,          \* which ParseArguments runs: "quote" or "fields"
    update,           \* u.EffectiveMessage of a dispatched update, <<>> if none
    command,          \* the registered *Command, <<>> if none
    ctx,              \* what the *ext.Context resolves: names, peers, users
    outcome           \* what the command handler returned, <<>> before that

\* the state around one call of ParseArguments
outer == <<variant, update, command, ctx, outcome>>

vars == <<text, defs, msg, pos, positionalCount, positionalIndex, args, ret,
          err, pc, outer>>

\* the scan loops of lines 353-355, 370-372 and 460-462
RECURSIVE SkipSpaces(_, _)
SkipSpaces(runes, p) ==
    IF p < Len(runes) /\ At(runes, p) = " " THEN SkipSpaces(runes, p + 1) ELSE p

\* the flag-name loop of lines 384-387: the position after the name
RECURSIVE NameEnd(_, _)
NameEnd(runes, p) ==
    IF p < Len(runes) /\ At(runes, p) \notin {" ", "\n", "="}
    THEN NameEnd(runes, p + 1) ELSE p

\* runes[from:to]
Slice(runes, from, to) == SubSeq(runes, from + 1, to)

\* a flag start that does not look at what stands before the dash
AtAnyDash(runes, p) == p < Len(runes) /\ At(runes, p) = "-"

\* lines 378: a dash at the start of the text or right after a space
AtFlagStart(runes, p) ==
    p < Len(runes) /\ At(runes, p) = "-" /\ (p = 0 \/ At(runes, p - 1) = " ")

\* the name read after the dash at p (lines 379-387)
FlagName(runes, p) == Slice(runes, p + 1, NameEnd(runes, p + 1))

\* lines 390-396: index in d of the first KindNamed definition called name,
\* 0 for nil
FindNamed(d, name) ==
    IF \E i \in 1..Len(d) : d[i].Kind = KindNamed /\ d[i].Name = name
    THEN CHOOSE i \in 1..Len(d) :
            /\ d[i].Kind = KindNamed /\ d[i].Name = name
            /\ \A j \in 1..(i - 1) : ~(d[j].Kind = KindNamed /\ d[j].Name = name)
    ELSE 0

\* lines 477-483: the loop takes the first definition d with
\* d.Kind == KindPositional && positionalIndex == len(args.Positional)
FindPositional(d, index, bound) ==
    IF \E i \in 1..Len(d) : d[i].Kind = KindPositional /\ index = bound
    THEN CHOOSE i \in 1..Len(d) :
            /\ d[i].Kind = KindPositional /\ index = bound
            /\ \A j \in 1..(i - 1) : ~(d[j].Kind = KindPositional /\ index = bound)
    ELSE 0

RECURSIVE ReadQuotedNoEscape(_, _, _)
\* a quoted-value loop that gives the backslash no meaning
ReadQuotedNoEscape(runes, p, builder) ==
    IF p < Len(runes) /\ At(runes, p) # "\""
    THEN ReadQuotedNoEscape(runes, p + 1, Append(builder, At(runes, p)))
    ELSE <<builder, p>>

RECURSIVE ReadQuotedClosedOnly(_, _, _)
\* a quoted-value loop that keeps the value only when it finds the closing
\* quote
ReadQuotedClosedOnly(runes, p, builder) ==
    IF p < Len(runes) /\ At(runes, p) # "\""
    THEN LET q == IF At(runes, p) = "\\" /\ p + 1 < Len(runes) THEN p + 1 ELSE p
         IN ReadQuotedClosedOnly(runes, q + 1, Append(builder, At(runes, q)))
    ELSE IF p < Len(runes) THEN <<builder, p>>
    ELSE <<<<>>, p>>

\* the quoted-value loop of lines 419-425 and 491-497, from the character
\* after the opening quote: <<value, position of the closing quote or end>>
RECURSIVE ReadQuoted(_, _, _)
ReadQuoted(runes, p, builder) ==
    IF p < Len(runes) /\ At(runes, p) # "\""
    THEN LET q == IF At(runes, p) = "\\" /\ p + 1 < Len(runes) THEN p + 1 ELSE p
         IN ReadQuoted(runes, q + 1, Append(builder, At(runes, q)))
    ELSE <<builder, p>>

\* a bare-value loop that reads nothing and leaves the position where it is
ReadBareStuck(runes, p, builder) == <<builder, p>>

RECURSIVE ReadBareAfterDash(_, _, _)
\* a bare-value loop that starts after the dash of the token
ReadBareAfterDash(runes, p, builder) ==
    IF p < Len(runes) /\ At(runes, p) # " "
    THEN ReadBareAfterDash(runes, p + 1,
                           IF builder = <<>> /\ At(runes, p) = "-"
                           THEN builder ELSE Append(builder, At(runes, p)))
    ELSE <<builder, p>>

\* the bare-value loop of lines 432-435 and 504-507
RECURSIVE ReadBare(_, _, _)
ReadBare(runes, p, builder) ==
    IF p < Len(runes) /\ At(runes, p) # " "
    THEN ReadBare(runes, p + 1, Append(builder, At(runes, p)))
    ELSE <<builder, p>>

\* a value read that gives the quote no meaning
ReadValueBare(runes, p) == ReadBare(runes, p, <<>>)

\* "Parse value", lines 415-437 and 487-509: <<value, position after it>>
ReadValue(runes, p) ==
    IF p < Len(runes) /\ At(runes, p) = "\""
    THEN LET r == ReadQuoted(runes, p + 1, <<>>)
         IN <<r[1], IF r[2] < Len(runes) THEN r[2] + 1 ELSE r[2]>>
    ELSE ReadBare(runes, p, <<>>)

\* args.Named[name] = arg
SetNamed(named, name, arg) ==
    [n \in DOMAIN named \cup {name} |-> IF n = name THEN arg ELSE named[n]]

(***************************************************************************)
(* The steps of ParseArguments: the prologue, one step per iteration of the *)
(* scan loop (by the branch the iteration takes) and the required check.    *)
(***************************************************************************)
EmptyArguments ==
    [Positional |-> <<>>, Named |-> <<>>, Rest |-> <<>>, Raw |-> <<>>,
     Reply |-> <<>>]

\* lines 340-345
NewArguments(t, m) ==
    [Positional |-> <<>>, Named |-> <<>>, Rest |-> <<>>, Raw |-> t, Reply |-> m]

\* lines 357-363
CountPositional(d) == Cardinality({i \in 1..Len(d) : d[i].Kind = KindPositional})

\* the loop condition of line 368
LoopOrRequired(p) == IF p < Len(text) THEN "scan" ELSE "required"

\* lines 340-366
Begin ==
    /\ pc = "start"
    /\ variant = "quote"
    /\ args' = NewArguments(text, msg)
    /\ pos' = SkipSpaces(text, 0)
    /\ positionalCount' = CountPositional(defs)
    /\ positionalIndex' = 0
    /\ pc' = LoopOrRequired(pos')
    /\ UNCHANGED <<outer, text, defs, msg, ret, err>>

\* the position of the token this iteration looks at (lines 370-372)
Here == SkipSpaces(text, pos)

\* the recognized flag at Here: an index in defs, 0 when there is none
\* (lines 378-396)
FlagDef ==
    IF AtFlagStart(text, Here) THEN FindNamed(defs, FlagName(text, Here)) ELSE 0

\* lines 399-402: the position after the flag name and one '=', ' ' or '\n'
AfterFlag ==
    LET e == NameEnd(text, Here + 1)
    IN IF e < Len(text) /\ At(text, e) \in {"=", " ", "\n"} THEN e + 1 ELSE e

\* return nil, &ArgumentError{...}
Fail(argument, message) ==
    /\ err' = <<ArgumentError(argument, message)>>
    /\ ret' = <<>>
    /\ pc' = "done"

\* lines 373-375: only spaces were left
ScanBreak ==
    /\ pc = "scan"
    /\ Here >= Len(text)
    /\ pos' = Here
    /\ pc' = "required"
    /\ UNCHANGED <<outer, text, defs, msg, positionalCount, positionalIndex, args,
                   ret, err>>

\* a Bool flag that takes the token after it as its value when that token
\* parses as a boolean, as the whitespace-splitting variant does
ScanNamedBoolInline ==
    /\ pc = "scan"
    /\ Here < Len(text)
    /\ FlagDef # 0
    /\ defs[FlagDef].Type = TypeBool
    /\ LET def == defs[FlagDef]
           read == ReadValue(text, AfterFlag)
           inline == AfterFlag < Len(text) /\ At(text, AfterFlag) # "-"
                        /\ ParseBoolOk(read[1])
       IN /\ args' = [args EXCEPT !.Named =
                        SetNamed(@, def.Name,
                                 IF inline
                                 THEN ParsedArgument(def.Name,
                                                     BoolValue(ParseBoolVal(read[1])),
                                                     read[1])
                                 ELSE ParsedArgument(def.Name, BoolValue(TRUE),
                                                     <<"t", "r", "u", "e">>))]
          /\ pos' = IF inline THEN read[2] ELSE AfterFlag
    /\ pc' = LoopOrRequired(pos')
    /\ UNCHANGED <<outer, text, defs, msg, positionalCount, positionalIndex, ret, err>>

\* a Bool flag handled like a flag of any other type: its value is read and
\* coerced
ScanNamedBoolValue ==
    /\ pc = "scan"
    /\ Here < Len(text)
    /\ FlagDef # 0
    /\ defs[FlagDef].Type = TypeBool
    /\ LET def == defs[FlagDef]
           read == ReadValue(text, AfterFlag)
           parsed == parseValue(read[1], def.Type)
       IN IF parsed[2] # <<>>
          THEN /\ Fail(def.Name, parsed[2][1])
               /\ pos' = read[2]
               /\ UNCHANGED args
          ELSE /\ args' = [args EXCEPT !.Named =
                             SetNamed(@, def.Name,
                                      ParsedArgument(def.Name, parsed[1], read[1]))]
               /\ pos' = read[2]
               /\ pc' = LoopOrRequired(pos')
               /\ UNCHANGED <<ret, err>>
    /\ UNCHANGED <<outer, text, defs, msg, positionalCount, positionalIndex>>

\* lines 378-412: a recognized flag of type Bool
ScanNamedBool ==
    /\ pc = "scan"
    /\ Here < Len(text)
    /\ FlagDef # 0
    /\ defs[FlagDef].Type = TypeBool
    /\ args' = [args EXCEPT !.Named =
                  SetNamed(@, defs[FlagDef].Name,
                           ParsedArgument(defs[FlagDef].Name, BoolValue(TRUE),
                                          <<"t", "r", "u", "e">>))]
    /\ pos' = AfterFlag
    /\ pc' = LoopOrRequired(pos')
    /\ UNCHANGED <<outer, text, defs, msg, positionalCount, positionalIndex, ret, err>>

\* lines 378-402 and 414-448: a recognized flag of another type and its value
ScanNamedValue ==
    /\ pc = "scan"
    /\ Here < Len(text)
    /\ FlagDef # 0
    /\ defs[FlagDef].Type # TypeBool
    /\ LET def == defs[FlagDef]
           read == ReadValue(text, AfterFlag)
           parsed == parseValue(read[1], def.Type)
       IN IF parsed[2] # <<>>
          THEN /\ Fail(def.Name, parsed[2][1])
               /\ pos' = read[2]
               /\ UNCHANGED args
          ELSE /\ args' = [args EXCEPT !.Named =
                             SetNamed(@, def.Name,
                                      ParsedArgument(def.Name, parsed[1], read[1]))]
               /\ pos' = read[2]
               /\ pc' = LoopOrRequired(pos')
               /\ UNCHANGED <<ret, err>>
    /\ UNCHANGED <<outer, text, defs, msg, positionalCount, positionalIndex>>

RestName == <<"r", "e", "s", "t">>

\* a rest capture that takes one token and lets the scan go on
ScanRestOneToken ==
    /\ pc = "scan"
    /\ Here < Len(text)
    /\ FlagDef = 0
    /\ positionalIndex >= positionalCount
    /\ LET read == ReadBare(text, Here, <<>>)
       IN /\ args' = [args EXCEPT !.Rest =
                        <<ParsedArgument(RestName, StringValue(read[1]), read[1])>>]
          /\ pos' = read[2]
    /\ pc' = LoopOrRequired(pos')
    /\ UNCHANGED <<outer, text, defs, msg, positionalCount, positionalIndex, ret, err>>

\* a scan that ends at the first token after the positional slots and
\* drops the remaining input
ScanRestDiscard ==
    /\ pc = "scan"
    /\ Here < Len(text)
    /\ FlagDef = 0
    /\ positionalIndex >= positionalCount
    /\ pos' = Here
    /\ pc' = "required"
    /\ UNCHANGED <<outer, text, defs, msg, positionalCount, positionalIndex, args,
                   ret, err>>

\* lines 449-452 and 456-474: the positional slots are filled, the rest of
\* the text is captured and the loop ends
ScanRest ==
    /\ pc = "scan"
    /\ Here < Len(text)
    /\ FlagDef = 0
    /\ positionalIndex >= positionalCount
    /\ LET rest == TrimSpace(Slice(text, Here, Len(text)))
       IN args' = IF rest # <<>>
                  THEN [args EXCEPT !.Rest =
                          <<ParsedArgument(RestName, StringValue(rest), rest)>>]
                  ELSE args
    /\ pos' = Here
    /\ pc' = "required"
    /\ UNCHANGED <<outer, text, defs, msg, positionalCount, positionalIndex, ret, err>>

\* lines 449-452, 456 and 476-521: a positional value
ScanPositional ==
    /\ pc = "scan"
    /\ Here < Len(text)
    /\ FlagDef = 0
    /\ positionalIndex < positionalCount
    /\ LET di == FindPositional(defs, positionalIndex, Len(args.Positional))
           read == ReadValue(text, Here)
       IN IF di = 0
          THEN /\ pos' = Here
               /\ UNCHANGED <<args, positionalIndex, ret, err, pc>>
          ELSE LET def == defs[di]
                   parsed == parseValue(read[1], def.Type)
               IN IF parsed[2] # <<>>
                  THEN /\ Fail(def.Name, parsed[2][1])
                       /\ pos' = read[2]
                       /\ UNCHANGED <<args, positionalIndex>>
                  ELSE /\ args' = [args EXCEPT !.Positional =
                                     Append(@, ParsedArgument(def.Name, parsed[1],
                                                              read[1]))]
                       /\ positionalIndex' = positionalIndex + 1
                       /\ pos' = read[2]
                       /\ pc' = LoopOrRequired(pos')
                       /\ UNCHANGED <<ret, err>>
    /\ UNCHANGED <<outer, text, defs, msg, positionalCount>>

\* a required check that looks at the Named map only
RequiredMissingNamedOnly(def, a) ==
    def.Required /\ def.Kind = KindNamed /\ def.Name \notin DOMAIN a.Named

\* lines 528-543: the required check finds def unbound in a
RequiredMissing(def, a) ==
    /\ def.Required
    /\ IF def.Kind = KindPositional
       THEN \A k \in 1..Len(a.Positional) : a.Positional[k].Name # def.Name
       ELSE def.Name \notin DOMAIN a.Named

\* a required check that first binds the Default of every Named definition
\* the text left unbound
CheckRequiredBindingDefaults ==
    /\ pc = "required"
    /\ LET unbound == {i \in 1..Len(defs) :
                          /\ defs[i].Kind = "KindNamed"
                          /\ defs[i].Default # <<>>
                          /\ defs[i].Name \notin DOMAIN args.Named}
           names == {defs[i].Name : i \in unbound}
           default(n) == defs[CHOOSE i \in unbound : defs[i].Name = n].Default[1]
           bound == [args EXCEPT !.Named =
                        [n \in DOMAIN args.Named \cup names |->
                            IF n \in DOMAIN args.Named THEN args.Named[n]
                            ELSE [Name |-> n, Value |-> default(n), RawValue |-> <<>>]]]
           missing(d) ==
               /\ d.Required
               /\ IF d.Kind = "KindPositional"
                  THEN \A k \in 1..Len(bound.Positional) : bound.Positional[k].Name # d.Name
                  ELSE d.Name \notin DOMAIN bound.Named
       IN IF \E i \in 1..Len(defs) : missing(defs[i])
          THEN /\ err' = <<[Argument |-> <<>>, Message |-> "required argument missing"]>>
               /\ ret' = <<>>
          ELSE /\ ret' = <<bound>>
               /\ err' = <<>>
    /\ pc' = "done"
    /\ UNCHANGED <<outer, text, defs, msg, pos, positionalCount, positionalIndex, args>>

\* lines 525-547
CheckRequired ==
    /\ pc = "required"
    /\ IF \E i \in 1..Len(defs) : RequiredMissing(defs[i], args)
       THEN LET i == CHOOSE i \in 1..Len(defs) :
                        /\ RequiredMissing(defs[i], args)
                        /\ \A j \in 1..(i - 1) : ~RequiredMissing(defs[j], args)
            IN Fail(defs[i].Name,
                    IF defs[i].Kind = KindPositional
                    THEN "required positional argument missing"
                    ELSE "required named argument missing")
       ELSE /\ ret' = <<args>>
            /\ err' = <<>>
            /\ pc' = "done"
    /\ UNCHANGED <<outer, text, defs, msg, pos, positionalCount, positionalIndex, args>>

ParseArguments ==
    \/ Begin
    \/ ScanBreak
    \/ ScanNamedBool
    \/ ScanNamedValue
    \/ ScanRest
    \/ ScanPositional
    \/ CheckRequired

(***************************************************************************)
(* Getters of Arguments (part_000 lines 163-308).                           *)
(***************************************************************************)
Get(a, name) == IF name \in DOMAIN a.Named THEN a.Named[name].Value ELSE NilValue

GetString(a, name) ==
    IF Get(a, name).t = "string" THEN Get(a, name).v ELSE <<>>
GetInt(a, name) == IF Get(a, name).t = "int" THEN Get(a, name).v ELSE 0
GetBool(a, name) == IF Get(a, name).t = "bool" THEN Get(a, name).v ELSE FALSE
GetDuration(a, name) ==
    IF Get(a, name).t = "hdur.Duration" THEN Get(a, name).v ELSE ZeroDuration
GetEntity(a, name) ==
    IF name \in DOMAIN a.Named THEN a.Named[name].RawValue ELSE <<>>

GetPositionalEntity(a, index) ==
    IF index >= 0 /\ index < Len(a.Positional)
    THEN a.Positional[index + 1].RawValue ELSE <<>>
GetPositional(a, index) ==
    IF index >= 0 /\ index < Len(a.Positional)
    THEN a.Positional[index + 1].Value ELSE NilValue
GetPositionalString(a, index) ==
    IF GetPositional(a, index).t = "string" THEN GetPositional(a, index).v ELSE <<>>
GetPositionalInt(a, index) ==
    IF GetPositional(a, index).t = "int" THEN GetPositional(a, index).v ELSE 0
GetRest(a) == IF a.Rest # <<>> THEN a.Rest[1].RawValue ELSE <<>>

(***************************************************************************)
(* The whitespace-splitting ParseArguments (part_000 lines 873-992) and its *)
(* parseValue (lines 851-870), which knows no TypeDuration.                 *)
(***************************************************************************)
KindVariadic == "KindVariadic"

RECURSIVE Fields(_, _, _)
\* strings.Fields: the parts read so far in acc, the open part in cur
Fields(s, cur, acc) ==
    IF s = <<>> THEN (IF cur = <<>> THEN acc ELSE Append(acc, cur))
    ELSE IF s[1] \in WhiteSpace
         THEN Fields(Tail(s), <<>>, IF cur = <<>> THEN acc ELSE Append(acc, cur))
    ELSE Fields(Tail(s), Append(cur, s[1]), acc)

\* a parseValue that takes no text but true for a boolean
parseValueFieldsTrueOnly(value, argType) ==
    IF argType = TypeDuration
    THEN <<NilValue, <<"unsupported argument type">>>>
    ELSE IF argType = TypeBool /\ value # <<"t", "r", "u", "e">>
    THEN <<BoolValue(FALSE), <<"strconv.ParseBool: invalid syntax">>>>
    ELSE parseValue(value, argType)

parseValueFields(value, argType) ==
    IF argType = TypeDuration
    THEN <<NilValue, <<"unsupported argument type">>>>
    ELSE parseValue(value, argType)

\* lines 877-886
NewArgumentsFields(t) ==
    [Positional |-> <<>>, Named |-> <<>>, Variadic |-> <<>>, Raw |-> t,
     Reply |-> <<>>]

\* lines 941-958: the definition a bare part goes to, 0 when there is none
FindBare(d, p) ==
    IF \E j \in 1..Len(d) :
          (d[j].Kind = KindPositional /\ p = 0) \/ d[j].Kind = KindVariadic
    THEN CHOOSE j \in 1..Len(d) :
            /\ (d[j].Kind = KindPositional /\ p = 0) \/ d[j].Kind = KindVariadic
            /\ \A k \in 1..(j - 1) :
                  ~((d[k].Kind = KindPositional /\ p = 0) \/ d[k].Kind = KindVariadic)
    ELSE 0

FieldsFail(st, argument, message) ==
    [st EXCEPT !.err = <<ArgumentError(argument, message)>>]

FieldsBind(st, name, value, raw) ==
    [st EXCEPT !.args.Named = SetNamed(@, name, ParsedArgument(name, value, raw)),
               !.namedFound = @ \cup {name}]

RECURSIVE FieldsLoop(_, _, _, _)
\* lines 889-959, from part i (1-based); st is [args, pos, namedFound, err]
FieldsLoop(parts, i, d, st) ==
    IF i > Len(parts) THEN st
    ELSE IF HasPrefix(parts[i], <<"-">>)
    THEN LET name == TrimPrefix(parts[i], <<"-">>)
             di == FindNamed(d, name)
         IN IF di = 0 THEN FieldsFail(st, name, "unknown named argument")
            ELSE IF d[di].Type = TypeBool
            THEN IF /\ i + 1 <= Len(parts)
                    /\ ~HasPrefix(parts[i + 1], <<"-">>)
                    /\ parseValueFields(parts[i + 1], TypeBool)[2] = <<>>
                 THEN FieldsLoop(parts, i + 2, d,
                         FieldsBind(st, name,
                                    parseValueFields(parts[i + 1], TypeBool)[1],
                                    parts[i + 1]))
                 ELSE FieldsLoop(parts, i + 1, d,
                         FieldsBind(st, name, BoolValue(TRUE), <<"t", "r", "u", "e">>))
            ELSE IF i + 1 > Len(parts)
                 THEN FieldsFail(st, name, "no value provided")
            ELSE LET parsed == parseValueFields(parts[i + 1], d[di].Type)
                 IN IF parsed[2] # <<>>
                    THEN FieldsFail(st, name, "invalid value")
                    ELSE FieldsLoop(parts, i + 2, d,
                            FieldsBind(st, name, parsed[1], parts[i + 1]))
    ELSE LET j == FindBare(d, st.pos)
         IN IF j = 0 THEN FieldsLoop(parts, i + 1, d, st)
            ELSE LET parsed == parseValueFields(parts[i], d[j].Type)
                     arg == ParsedArgument(d[j].Name, parsed[1], parts[i])
                 IN IF parsed[2] # <<>>
                    THEN FieldsFail(st, d[j].Name, "invalid value")
                    ELSE IF d[j].Kind = KindPositional
                    THEN FieldsLoop(parts, i + 1, d,
                            [st EXCEPT !.args.Positional = Append(@, arg),
                                       !.pos = @ + 1])
                    ELSE FieldsLoop(parts, i + 1, d,
                            [st EXCEPT !.args.Variadic = Append(@, arg)])

RECURSIVE FieldsRequired(_, _, _, _)
\* lines 961-988, from definition i
FieldsRequired(d, i, m, st) ==
    IF i > Len(d) THEN st
    ELSE IF d[i].Type = TypeReply
    THEN IF d[i].Required /\ st.args.Reply = <<>>
         THEN FieldsFail(st, d[i].Name, "reply to a message is required")
         ELSE FieldsRequired(d, i + 1, m,
                 IF m # <<>> /\ m[1].ReplyToMessage # <<>>
                 THEN [st EXCEPT !.args.Reply = m[1].ReplyToMessage]
                 ELSE st)
    ELSE IF d[i].Required /\ d[i].Kind = KindNamed /\ d[i].Name \notin st.namedFound
    THEN IF d[i].Default # <<>>
         THEN FieldsRequired(d, i + 1, m,
                 [st EXCEPT !.args.Named =
                     SetNamed(@, d[i].Name,
                              ParsedArgument(d[i].Name, d[i].Default[1], <<>>))])
         ELSE FieldsFail(st, d[i].Name, "required argument not provided")
    ELSE IF d[i].Required /\ d[i].Kind = KindPositional /\ Len(st.args.Positional) = 0
    THEN IF d[i].Default # <<>>
         THEN FieldsRequired(d, i + 1, m,
                 [st EXCEPT !.args.Positional =
                     Append(@, ParsedArgument(d[i].Name, d[i].Default[1], <<>>))])
         ELSE FieldsFail(st, d[i].Name, "required argument not provided")
    ELSE FieldsRequired(d, i + 1, m, st)

\* lines 873-992: the state at the return
FieldsResult(t, d, m) ==
    LET scanned == FieldsLoop(Fields(t, <<>>, <<>>), 1, d,
                              [args |-> NewArgumentsFields(t), pos |-> 0,
                               namedFound |-> {}, err |-> <<>>])
    IN IF scanned.err # <<>> THEN scanned ELSE FieldsRequired(d, 1, m, scanned)

\* one call of the whitespace-splitting ParseArguments
ParseArgumentsFields ==
    /\ pc = "start"
    /\ variant = "fields"
    /\ LET result == FieldsResult(text, defs, msg)
       IN /\ args' = result.args
          /\ err' = result.err
          /\ ret' = IF result.err = <<>> THEN <<result.args>> ELSE <<>>
    /\ pc' = "done"
    /\ UNCHANGED <<outer, text, defs, msg, pos, positionalCount, positionalIndex>>

(***************************************************************************)
(* Messages (types.Message): the invoking message and the message it       *)
(* replies to. FromID is the sender's user id, <<>> when the message has    *)
(* none: user 1 sends the command, user 2 wrote the replied-to message.     *)
(***************************************************************************)
Message(id, from, out, txt, reply) ==
    [ID |-> id, Out |-> out, Text |-> txt, Message |-> <<[FromID |-> from]>>,
     ReplyToMessage |-> reply]

RepliedTo == Message(1, <<2>>, FALSE, <<"a">>, <<>>)

(***************************************************************************)
(* Inputs. The schemas follow the tests of ParseArguments                   *)
(* (part_000 lines 1008-1133) and the commands of the modules; the flags    *)
(* are called b, c and n so that short texts can name them.                 *)
(***************************************************************************)
Positional(name, type, required) ==
    ArgumentDefinition(name, type, KindPositional, required, <<>>)
Named(name, type, required) ==
    ArgumentDefinition(name, type, KindNamed, required, <<>>)

first == <<"f", "i", "r", "s", "t">>
second == <<"s", "e", "c", "o", "n", "d">>

\* "basic positional", part_000 lines 1011-1014
SchemaBasicPositional ==
    <<Positional(first, TypeString, FALSE), Positional(second, TypeString, FALSE)>>

\* "boolean flags", part_000 lines 1066-1070
SchemaBooleanFlags ==
    <<Named(<<"b">>, TypeBool, FALSE), Named(<<"c">>, TypeBool, FALSE)>>

\* "mixed arguments with rest", part_000 lines 1086-1090, the flag an Int
SchemaMixed ==
    <<Positional(first, TypeString, FALSE), Named(<<"n">>, TypeInt, FALSE),
      Positional(second, TypeString, FALSE)>>

\* "required arguments", part_000 lines 1109-1111
SchemaRequired == <<Positional(first, TypeString, TRUE)>>

\* two required positional definitions
SchemaTwoRequired ==
    <<Positional(first, TypeString, TRUE), Positional(second, TypeString, TRUE)>>

\* positional definitions of two types, the second one optional
SchemaTyped ==
    <<Positional(first, TypeString, FALSE), Positional(second, TypeInt, FALSE)>>

\* "type conversion", part_000 lines 1117-1121, the Int flag required
SchemaTypeConversion ==
    <<Named(<<"n">>, TypeInt, TRUE), Named(<<"b">>, TypeBool, FALSE)>>

\* required definitions that carry a Default
SchemaDefault ==
    <<ArgumentDefinition(first, TypeString, KindPositional, TRUE,
                         <<StringValue(<<"a">>)>>),
      ArgumentDefinition(<<"n">>, TypeInt, KindNamed, TRUE, <<IntValue(1)>>)>>

\* the echo command, part_004 lines 63-85, without its variadic definition
SchemaEcho ==
    <<Positional(first, TypeString, TRUE),
      ArgumentDefinition(<<"n">>, TypeInt, KindNamed, FALSE, <<IntValue(1)>>),
      ArgumentDefinition(<<"b">>, TypeBool, KindNamed, FALSE, <<BoolValue(FALSE)>>)>>

Schemas ==
    {SchemaBasicPositional, SchemaBooleanFlags, SchemaMixed, SchemaRequired,
     SchemaTwoRequired, SchemaTyped, SchemaTypeConversion, SchemaDefault,
     SchemaEcho}

\* the words of the texts; the empty word makes a doubled, leading or
\* trailing space
false == <<"f", "a", "l", "s", "e">>
Words == {<<>>, <<"a">>, <<"1">>, <<"-", "b">>, <<"-", "c">>, <<"-", "n">>, false}

RECURSIVE Join(_)
\* strings.Join(ws, " ")
Join(ws) ==
    IF ws = <<>> THEN <<>>
    ELSE IF Len(ws) = 1 THEN ws[1]
    ELSE ws[1] \o <<" ">> \o Join(Tail(ws))

TextsOf(words, n) ==
    {Join(ws) : ws \in UNION {[1..k -> words] : k \in 0..n}}

Texts == TextsOf(Words, MaxWords)

\* a direct call ParseArguments(text, defs, nil), as the tests make it
\* (part_000 line 1138)
Init ==
    /\ text \in Texts
    /\ defs \in Schemas
    /\ msg = <<>>
    /\ pos = 0
    /\ positionalCount = 0
    /\ positionalIndex = 0
    /\ args = EmptyArguments
    /\ ret = <<>>
    /\ err = <<>>
    /\ pc = "start"
    /\ variant = "quote"
    /\ update = <<>>
    /\ command = <<>>
    /\ ctx = <<>>
    /\ outcome = <<>>

Next == ParseArguments

Spec == Init /\ [][Next]_vars

(***************************************************************************)
(* What the claims speak of.                                                *)
(***************************************************************************)
Done == pc = "done"
Returned == Done /\ ret # <<>>

\* the Positional definitions of the schema, in declaration order
PositionalDefs == SelectSeq(defs, LAMBDA d : d.Kind = KindPositional)

\* the place of definition i among the Positional definitions
Ordinal(i) == Cardinality({j \in 1..i : defs[j].Kind = KindPositional})

RequiredMessages ==
    {"required positional argument missing", "required named argument missing"}

\* the scan consumed the whole text: no coercion failed
ScanCompleted == Done /\ (err = <<>> \/ err[1].Message \in RequiredMessages)

\* the scan took no value from the text for definition i
ReceivedNoValue(i) ==
    IF defs[i].Kind = KindPositional
    THEN positionalIndex < Ordinal(i)
    ELSE defs[i].Name \notin DOMAIN args.Named

DistinctNames ==
    \A i, j \in 1..Len(defs) : defs[i].Name = defs[j].Name => i = j

\* C1: the k-th positional value consumed from the input carries the name of
\* the k-th Positional definition of the schema and is coerced with that
\* definition's type.
C1_PositionalInDeclarationOrder ==
    \A k \in 1..Len(args.Positional) :
        /\ k <= Len(PositionalDefs)
        /\ args.Positional[k].Name = PositionalDefs[k].Name
        /\ args.Positional[k].Value =
              parseValue(args.Positional[k].RawValue, PositionalDefs[k].Type)[1]

\* C2 as claimed: every Required definition without a Default that receives
\* no value makes ParseArguments return no bag and an error whose Argument
\* is that definition's name.
C2_MissingRequiredNamesIt ==
    ScanCompleted =>
        \A i \in 1..Len(defs) :
            (defs[i].Required /\ defs[i].Default = <<>> /\ ReceivedNoValue(i))
            => /\ ret = <<>>
               /\ err # <<>>
               /\ err[1].Argument = defs[i].Name

\* C2 as amended: such a definition makes ParseArguments return no bag and an
\* error; when no coercion fails and no other Required definition precedes
\* it in the schema, the error's Argument is that definition's name.
C2_MissingRequiredFails ==
    Done =>
        \A i \in 1..Len(defs) :
            (DistinctNames /\ defs[i].Required /\ defs[i].Default = <<>>
                /\ ReceivedNoValue(i))
            => /\ ret = <<>>
               /\ err # <<>>
               /\ (ScanCompleted /\ \A j \in 1..(i - 1) : ~defs[j].Required)
                     => /\ err[1].Argument = defs[i].Name
                        /\ err[1].Message \in RequiredMessages

\* a required definition without a default received nothing and the error
\* names it
C2_Witness ==
    /\ Done
    /\ ret = <<>>
    /\ \E i \in 1..Len(defs) :
          /\ defs[i].Required /\ defs[i].Default = <<>> /\ ReceivedNoValue(i)
          /\ err # <<>> /\ err[1].Argument = defs[i].Name
          /\ err[1].Message \in RequiredMessages

\* C3: when the input supplies a value for every Required definition and
\* every coercion succeeds, a bag is returned with no error.
C3_AllRequiredSuppliedSucceeds ==
    (ScanCompleted /\ \A i \in 1..Len(defs) :
                         defs[i].Required => ~ReceivedNoValue(i))
    => (ret # <<>> /\ err = <<>>)

\* definition d is bound to its default in bag a
BoundToDefault(a, d) ==
    IF d.Kind = KindPositional
    THEN \E k \in 1..Len(a.Positional) :
            a.Positional[k].Name = d.Name /\ a.Positional[k].Value = d.Default[1]
    ELSE d.Name \in DOMAIN a.Named /\ a.Named[d.Name].Value = d.Default[1]

\* C4: a Required definition the input leaves unbound and that carries a
\* Default is bound to the default and produces no error.
C4_RequiredDefaultIsBound ==
    ScanCompleted =>
        \A i \in 1..Len(defs) :
            (defs[i].Required /\ defs[i].Default # <<>> /\ ReceivedNoValue(i))
            => /\ ~(err # <<>> /\ err[1].Argument = defs[i].Name)
               /\ ret # <<>> => BoundToDefault(ret[1], defs[i])

\* C5: a returned bag holds, for every positional value and every named
\* value, the raw text coerced with the declared type of its definition; raw
\* text that does not parse as the declared type never reaches a bag.
C5_NoSilentCoercionFallback ==
    Returned =>
        /\ \A k \in 1..Len(ret[1].Positional) :
              k <= Len(PositionalDefs) =>
                 LET parsed == parseValue(ret[1].Positional[k].RawValue,
                                          PositionalDefs[k].Type)
                 IN parsed[2] = <<>> /\ ret[1].Positional[k].Value = parsed[1]
        /\ \A i \in 1..Len(defs) :
              (defs[i].Kind = KindNamed /\ defs[i].Type # TypeBool
                  /\ FindNamed(defs, defs[i].Name) = i
                  /\ defs[i].Name \in DOMAIN ret[1].Named)
              => LET parsed == parseValue(ret[1].Named[defs[i].Name].RawValue,
                                          defs[i].Type)
                 IN parsed[2] = <<>> /\ ret[1].Named[defs[i].Name].Value = parsed[1]

(***************************************************************************)
(* Boolean flags.                                                           *)
(***************************************************************************)
Separators == {" ", "=", "\n"}

\* the token the scan looks at next starts at p
NextTokenAt(p) ==
    /\ pos <= p /\ p < Len(text) /\ At(text, p) # " "
    /\ \A q \in pos..(p - 1) : At(text, q) = " "

\* at p the text holds the flag -name: a dash at the start of the text or
\* after a space, the name, then the end of the text or a separator
FlagWrittenAt(p, name) ==
    /\ p + 1 + Len(name) <= Len(text)
    /\ At(text, p) = "-"
    /\ p = 0 \/ At(text, p - 1) = " "
    /\ Slice(text, p + 1, p + 1 + Len(name)) = name
    /\ \A q \in 1..Len(name) : name[q] \notin Separators
    /\ p + 1 + Len(name) = Len(text) \/ At(text, p + 1 + Len(name)) \in Separators

\* definition i is the Named definition that the flag of its name selects,
\* and its type is Bool
BoolFlag(i) ==
    /\ defs[i].Kind = KindNamed
    /\ defs[i].Type = TypeBool
    /\ \A j \in 1..(i - 1) : ~(defs[j].Kind = KindNamed /\ defs[j].Name = defs[i].Name)

TrueArgument(name) == ParsedArgument(name, BoolValue(TRUE), <<"t", "r", "u", "e">>)

\* the step that meets the Bool flag -name at p binds it to true and moves
\* over the flag and separators only: no character of the token that follows
\* is consumed, nothing else is bound
BoolFlagStep(p, i) ==
    (pc = "scan" /\ NextTokenAt(p) /\ BoolFlag(i) /\ FlagWrittenAt(p, defs[i].Name))
    => /\ args'.Named = SetNamed(args.Named, defs[i].Name, TrueArgument(defs[i].Name))
       /\ args'.Positional = args.Positional
       /\ args'.Rest = args.Rest
       /\ err' = <<>>
       /\ pos' >= p + 1 + Len(defs[i].Name)
       /\ pos' <= Len(text)
       /\ \A q \in (p + 1 + Len(defs[i].Name))..(pos' - 1) : At(text, q) \in Separators
       /\ pc' = IF pos' < Len(text) THEN "scan" ELSE "required"

\* the bag of a finished parse binds Bool flags to true only, and the token
\* after a Bool flag is bound on its own: `-b -c` binds both flags, `-b a`
\* binds a as the first positional value
BoolFlagsInBag ==
    Returned =>
        /\ \A i \in 1..Len(defs) :
              (BoolFlag(i) /\ defs[i].Name \in DOMAIN ret[1].Named)
              => ret[1].Named[defs[i].Name] = TrueArgument(defs[i].Name)
        /\ (defs = SchemaBooleanFlags /\ text = <<"-", "b", " ", "-", "c">>)
              => /\ DOMAIN ret[1].Named = {<<"b">>, <<"c">>}
                 /\ ret[1].Rest = <<>>
        /\ (defs = SchemaEcho /\ text = <<"-", "b", " ", "a">>)
              => /\ DOMAIN ret[1].Named = {<<"b">>}
                 /\ Len(ret[1].Positional) = 1
                 /\ ret[1].Positional[1].RawValue = <<"a">>

\* C9: every recognized named flag of type Bool is bound to true by presence
\* alone and never consumes the token after it; that token is then processed
\* on its own, as a flag, a positional value or the rest.
C9_BoolFlagPresenceOnly ==
    /\ [][\A p \in 0..Len(text), i \in 1..Len(defs) : BoolFlagStep(p, i)]_vars
    /\ []BoolFlagsInBag

\* a Bool flag was followed by a token, and both are in the returned bag
C9_Witness ==
    /\ Returned
    /\ defs = SchemaEcho
    /\ FlagWrittenAt(0, <<"b">>)
    /\ <<"b">> \in DOMAIN ret[1].Named
    /\ Len(ret[1].Positional) = 1
    /\ ret[1].Positional[1].RawValue = false

\* the flag -name is written in the text and followed by the token tok
FlagFollowedBy(name, tok) ==
    \E p \in 0..Len(text) :
        /\ FlagWrittenAt(p, name)
        /\ LET q == p + 1 + Len(name)
           IN /\ q + 1 + Len(tok) <= Len(text)
              /\ At(text, q) = " "
              /\ Slice(text, q + 1, q + 1 + Len(tok)) = tok
              /\ q + 1 + Len(tok) = Len(text) \/ At(text, q + 1 + Len(tok)) = " "

\* the flag -name is the last thing written in the text
FlagFollowedByNothing(name) ==
    \E p \in 0..Len(text) :
        /\ FlagWrittenAt(p, name)
        /\ \A q \in (p + 1 + Len(name))..(Len(text) - 1) : At(text, q) = " "

true == <<"t", "r", "u", "e">>

FirstToken(name) ==
    \E p \in 0..Len(text) :
        /\ FlagWrittenAt(p, name)
        /\ \A q \in 0..(p - 1) : At(text, q) = " "

reply == <<"r", "e", "p", "l", "y">>
user == <<"u", "s", "e", "r">>
duration == <<"d", "u", "r", "a", "t", "i", "o", "n">>
silent == <<"s", "i", "l", "e", "n", "t">>

\* a Reply-typed definition as the commands declare it: no Kind given,
\* which is the zero value KindPositional (system.go lines 263-268)
ReplyDefinition(required) ==
    ArgumentDefinition(reply, TypeReply, KindPositional, required, <<>>)

SchemaRequiredReply == <<ReplyDefinition(TRUE)>>

SchemaUserRequiredReply ==
    <<Positional(user, TypeEntity, FALSE), Named(silent, TypeBool, FALSE),
      ReplyDefinition(TRUE)>>

delete == <<"d", "e", "l", "e", "t", "e">>
spam == <<"s", "p", "a", "m">>

\* the ban command, system.go lines 223-269
SchemaBan ==
    <<Positional(user, TypeEntity, FALSE), Named(duration, TypeDuration, FALSE),
      ArgumentDefinition(silent, TypeBool, KindNamed, FALSE, <<BoolValue(FALSE)>>),
      ArgumentDefinition(delete, TypeBool, KindNamed, FALSE, <<BoolValue(FALSE)>>),
      ArgumentDefinition(spam, TypeBool, KindNamed, FALSE, <<BoolValue(FALSE)>>),
      ReplyDefinition(FALSE)>>

ReplySchemas == {SchemaRequiredReply, SchemaUserRequiredReply, SchemaBan}

ReplyWords ==
    {<<>>, <<"a">>, <<"1">>, <<"-">> \o silent, <<"-">> \o duration, <<"1", "h">>}

ReplyTexts == TextsOf(ReplyWords, MaxWords)

\* the msg parameter: nil, a message that is no reply, a reply to RepliedTo
Messages(t) ==
    {<<>>, <<Message(2, <<1>>, TRUE, t, <<>>)>>,
     <<Message(2, <<1>>, TRUE, t, <<RepliedTo>>)>>}

InitReply ==
    /\ text \in ReplyTexts
    /\ defs \in ReplySchemas
    /\ msg \in Messages(text)
    /\ variant \in {"quote", "fields"}
    /\ pos = 0
    /\ positionalCount = 0
    /\ positionalIndex = 0
    /\ args = EmptyArguments
    /\ ret = <<>>
    /\ err = <<>>
    /\ pc = "start"
    /\ update = <<>>
    /\ command = <<>>
    /\ ctx = <<>>
    /\ outcome = <<>>

NextReply == ParseArguments \/ ParseArgumentsFields

SpecReply == InitReply /\ [][NextReply]_vars

RequiredReplyDeclared ==
    \E i \in 1..Len(defs) : defs[i].Type = TypeReply /\ defs[i].Required

ReplyContextSupplied == msg # <<>> /\ msg[1].ReplyToMessage # <<>>

\* C6: in both variants of ParseArguments, when the schema declares a
\* Required Reply-typed definition, the call returns an error exactly when no
\* reply context is supplied: with a message that replies to another one the
\* parse succeeds whatever the text is, and with no message, or a message
\* that is no reply, it fails whatever the text is.
C6_RequiredReplyIffContext ==
    (Done /\ RequiredReplyDeclared) =>
        (err # <<>> <=> ~ReplyContextSupplied)


(***************************************************************************)
(* The resolver environment of a handler (ext.Context): the users that     *)
(* ResolveUsername finds, the peers of PeerStorage, and the users GetUser  *)
(* can fetch, which it stores as peers.                                     *)
(***************************************************************************)
User(id, username) == [ID |-> id, Username |-> username]
Peer(id, username) == [ID |-> id, Type |-> "TypeUser", Username |-> username]
ZeroPeer == [ID |-> 0, Type |-> "", Username |-> <<>>]

ResolveUsername(c, username) ==
    IF \E u \in c.Resolvable : u.Username = username
    THEN <<CHOOSE u \in c.Resolvable : u.Username = username>>
    ELSE <<>>

GetPeerById(c, id) ==
    IF \E p \in c.Peers : p.ID = id
    THEN CHOOSE p \in c.Peers : p.ID = id
    ELSE ZeroPeer

GetUser(c, id) ==
    IF \E u \in c.Remote : u.ID = id
    THEN LET u == CHOOSE r \in c.Remote : r.ID = id
         IN [ok |-> TRUE,
             ctx |-> [c EXCEPT !.Peers = {p \in @ : p.ID # id}
                                          \cup {Peer(u.ID, u.Username)}]]
    ELSE [ok |-> FALSE, ctx |-> c]

DigitChar(n) == CHOOSE c \in Digits : DigitVal(c) = n

RECURSIVE Itoa(_)
\* fmt.Sprint of an integer
Itoa(n) ==
    IF n < 0 THEN <<"-">> \o Itoa(0 - n)
    ELSE IF n < 10 THEN <<DigitChar(n)>>
    ELSE Itoa(n \div 10) \o <<DigitChar(n % 10)>>

\* a collaborator call a resolution makes, in the order of the calls
Call(function, argument) == [function |-> function, argument |-> argument]

\* the result of a resolution: the user or the error, the context after it
\* and the collaborator calls made
Resolved(c, u, calls) == [user |-> u, err |-> <<>>, ctx |-> c, calls |-> calls]
Unresolved(c, e, calls) == [user |-> <<>>, err |-> e, ctx |-> c, calls |-> calls]

\* utils.go lines 32-69; an error is the sequence of its wrapped parts. A
\* chat that ResolveUsername finds and that is no user counts as not found:
\* the code goes on in the same way
ResolveUser(c, identifier) ==
    LET username == TrimPrefix(identifier, <<"@">>)
        id == AtoiVal(identifier)
        peer == GetPeerById(c, id)
        got == GetUser(c, id)
        stored == GetPeerById(got.ctx, id)
        failed == <<"could not resolve user", identifier>>
        byName == <<Call("ResolveUsername", username)>>
        byPeer == Append(byName, Call("GetPeerById", id))
        byPeerName == IF peer.ID # 0 /\ peer.Type = "TypeUser"
                      THEN Append(byPeer, Call("ResolveUsername", peer.Username))
                      ELSE byPeer
        byUser == Append(byPeerName, Call("GetUser", id))
        byStored == IF got.ok THEN Append(byUser, Call("GetPeerById", id)) ELSE byUser
        byStoredName == Append(byStored, Call("ResolveUsername", stored.Username))
    IN IF ResolveUsername(c, username) # <<>>
       THEN Resolved(c, ResolveUsername(c, username), byName)
       ELSE IF ~AtoiOk(identifier) THEN Unresolved(c, failed, byName)
       ELSE IF /\ peer.ID # 0
               /\ peer.Type = "TypeUser"
               /\ ResolveUsername(c, peer.Username) # <<>>
       THEN Resolved(c, ResolveUsername(c, peer.Username), byPeerName)
       ELSE IF ~got.ok THEN Unresolved(got.ctx, failed, byUser)
       ELSE IF ~(stored.ID # 0 /\ stored.Type = "TypeUser" /\ stored.Username # <<>>)
       THEN Unresolved(got.ctx, failed, byStored)
       ELSE IF ResolveUsername(got.ctx, stored.Username) # <<>>
       THEN Resolved(got.ctx, ResolveUsername(got.ctx, stored.Username), byStoredName)
       ELSE Unresolved(got.ctx, failed, byStoredName)

\* utils.go lines 72-84; FromID is <<id>> for a PeerUser, <<>> otherwise
UserFromMessage(c, m) ==
    IF m.FromID # <<>> THEN ResolveUser(c, Itoa(m.FromID[1]))
    ELSE Unresolved(c, <<"could not get user from message">>, <<>>)

Wrap(r, message) == IF r.err # <<>> THEN [r EXCEPT !.err = <<message>> \o @] ELSE r

\* utils.go lines 221-247
GetUserFromArgs(c, a) ==
    IF GetPositionalEntity(a, 0) # <<>>
    THEN Wrap(ResolveUser(c, GetPositionalEntity(a, 0)), "failed to resolve user")
    ELSE IF a.Reply # <<>>
    THEN IF a.Reply[1].Message # <<>>
         THEN Wrap(UserFromMessage(c, a.Reply[1].Message[1]),
                   "failed to get user from replied message")
         ELSE Unresolved(c, <<"could not get replied message">>, <<>>)
    ELSE Unresolved(c, <<"please provide a username/ID or reply to a message">>, <<>>)

(***************************************************************************)
(* Commands and their dispatch (types.go lines 161-223): the message filter *)
(* of Register, its wrapper handler that calls the quote-aware              *)
(* ParseArguments, and the handlers of ban (system.go lines 270-317) and    *)
(* paste (part_006 lines 105-111).                                          *)
(***************************************************************************)
MaxArgs == 3

ban == <<"b", "a", "n">>
paste == <<"p", "a", "s", "t", "e">>
cb == <<"c", "b">>
mute == <<"m", "u", "t", "e">>

\* NewCommand, types.go lines 98-104, with the arguments and the handler set
NewCommand(name, arguments) ==
    [Name |-> name, Aliases |-> <<>>, Prefix |-> <<>>, Outgoing |-> TRUE,
     Incoming |-> FALSE, Arguments |-> arguments, Handler |-> name]

\* types.go lines 119-153
WithPrefix(c, prefix) == [c EXCEPT !.Prefix = prefix]
WithOutgoing(c, outgoing) == [c EXCEPT !.Outgoing = outgoing]
WithIncoming(c, incoming) == [c EXCEPT !.Incoming = incoming]
WithAliases(c, aliases) == [c EXCEPT !.Aliases = aliases]
\* a command whose handler was never set: Handler is nil
WithoutHandler(c) == [c EXCEPT !.Handler = <<>>]

\* part_006 lines 86-103
SchemaPaste ==
    <<ArgumentDefinition(cb, TypeBool, KindNamed, FALSE, <<BoolValue(FALSE)>>),
      ArgumentDefinition(silent, TypeBool, KindNamed, FALSE, <<BoolValue(FALSE)>>)>>

\* the mute command, system.go lines 318-342
SchemaMute ==
    <<Positional(user, TypeEntity, FALSE), Named(duration, TypeDuration, FALSE),
      ReplyDefinition(FALSE)>>

Commands ==
    {NewCommand(ban, SchemaBan), NewCommand(paste, SchemaPaste),
     NewCommand(mute, SchemaMute)}

\* the registry's default prefix, config CommandPrefix
defaultPrefix == <<".">>

\* types.go lines 167-170
PrefixOf(c) == IF c.Prefix = <<>> THEN defaultPrefix ELSE c.Prefix

\* a filter that stops at the prefix test and lets any text that starts
\* with the command through
createMessageFilterPrefixOnly(c, cmdName, m) ==
    /\ HasPrefix(m.Text, (IF c.Prefix = <<>> THEN <<".">> ELSE c.Prefix) \o cmdName)
    /\ ~(m.Out /\ ~c.Outgoing)
    /\ ~(~m.Out /\ ~c.Incoming)

\* createMessageFilter, types.go lines 173-196
createMessageFilter(c, cmdName, m) ==
    LET cmd == PrefixOf(c) \o cmdName
    IN /\ HasPrefix(m.Text, cmd)
       /\ ~(Len(m.Text) > Len(cmd) /\ m.Text[Len(cmd) + 1] # " ")
       /\ ~(m.Out /\ ~c.Outgoing)
       /\ ~(~m.Out /\ ~c.Incoming)

\* the filter of the handler registered under the name of the command
MessageFilter(c, m) == createMessageFilter(c, c.Name, m)

\* the names handlers are registered under: none without a handler (lines
\* 162-164), else the name (line 217) and the aliases (lines 220-222)
Registered(c) ==
    IF c.Handler = <<>> THEN {}
    ELSE {c.Name} \cup {c.Aliases[i] : i \in 1..Len(c.Aliases)}

\* an update the filter of the command lets through starts the wrapper
\* handler: types.go lines 201-206, up to the entry of ParseArguments
Register ==
    /\ pc = "idle"
    /\ \E cmdName \in Registered(command) :
          /\ createMessageFilter(command, cmdName, update[1])
          /\ text' = TrimSpace(TrimPrefix(update[1].Text,
                                          PrefixOf(command) \o cmdName))
    /\ defs' = command.Arguments
    /\ msg' = update
    /\ pc' = "start"
    /\ UNCHANGED <<outer, pos, positionalCount, positionalIndex, args, ret, err>>

\* an update the filter rejects runs no handler
Ignore ==
    /\ pc = "idle"
    /\ \A cmdName \in Registered(command) :
          ~createMessageFilter(command, cmdName, update[1])
    /\ pc' = "ignored"
    /\ UNCHANGED <<outer, text, defs, msg, pos, positionalCount, positionalIndex,
                   args, ret, err>>

Outcome(e, u, b, del, p, m) ==
    [err |-> e, user |-> u, banned |-> b, deleted |-> del, pasted |-> p,
     muted |-> m]

\* system.go lines 270-317; BanUser (utils.go lines 167-177) bans until a
\* date only when the duration is not zero
BanHandler(c, u, a) ==
    LET found == GetUserFromArgs(c, a)
        until == IF IsZero(GetDuration(a, duration))
                 THEN <<>> ELSE <<GetDuration(a, duration)>>
        deleted == IF GetBool(a, delete) \/ GetBool(a, silent)
                   THEN {u.ID} ELSE {}
    IN IF found.err # <<>>
       THEN [ctx |-> found.ctx, out |-> Outcome(found.err, <<>>, <<>>, {}, <<>>, <<>>)]
       ELSE [ctx |-> found.ctx,
             out |-> Outcome(<<>>, found.user,
                             <<[UserID |-> found.user[1].ID, Until |-> until]>>,
                             deleted, <<>>, <<>>)]

\* system.go lines 343-372: the rights are restricted until a date only
\* when the duration is not zero, and the confirmation says "permanently"
\* in the other case
MuteHandler(c, u, a) ==
    LET found == GetUserFromArgs(c, a)
        until == IF IsZero(GetDuration(a, duration))
                 THEN <<>> ELSE <<GetDuration(a, duration)>>
        durationText == IF IsZero(GetDuration(a, duration))
                        THEN "permanently" ELSE "for"
    IN IF found.err # <<>>
       THEN [ctx |-> found.ctx, out |-> Outcome(found.err, <<>>, <<>>, {}, <<>>, <<>>)]
       ELSE [ctx |-> found.ctx,
             out |-> Outcome(<<>>, found.user, <<>>, {}, <<>>,
                             <<[UserID |-> found.user[1].ID, Until |-> until,
                                Text |-> durationText]>>)]

\* part_006 lines 105-111 and the text the paste is made of
PasteHandler(c, u, a) ==
    IF a.Reply = <<>>
    THEN [ctx |-> c,
          out |-> Outcome(<<"please reply to a message to create a paste">>,
                          <<>>, <<>>, {u.ID}, <<>>, <<>>)]
    ELSE [ctx |-> c,
          out |-> Outcome(<<>>, <<>>, <<>>, {u.ID}, <<a.Reply[1].Text>>, <<>>)]

\* types.go lines 207-213: the return of ParseArguments ends the wrapper
\* with "invalid arguments" or runs the handler of the command
Handle ==
    /\ pc = "done"
    /\ update # <<>>
    /\ LET ran == IF command.Handler = ban
                  THEN BanHandler(ctx, update[1], ret[1])
                  ELSE IF command.Handler = mute
                  THEN MuteHandler(ctx, update[1], ret[1])
                  ELSE PasteHandler(ctx, update[1], ret[1])
       IN IF err # <<>>
          THEN /\ outcome' = <<Outcome(<<"invalid arguments", err[1]>>,
                                       <<>>, <<>>, {}, <<>>, <<>>)>>
               /\ ctx' = ctx
          ELSE /\ outcome' = <<ran.out>>
               /\ ctx' = ran.ctx
    /\ pc' = "handled"
    /\ UNCHANGED <<variant, update, command, text, defs, msg, pos, positionalCount,
                   positionalIndex, args, ret, err>>

\* the argument texts of the updates
DispatchWords ==
    {<<>>, <<"a">>, <<"2">>, <<"-">> \o silent, <<"-">> \o duration, <<"1", "h">>,
     <<"0", "h">>}

\* the texts of the updates: a command alone, with arguments, run into
\* another word, or in an indented message
UpdateTexts ==
    LET names == {defaultPrefix \o ban, defaultPrefix \o paste, defaultPrefix \o mute}
    IN {n \o <<" ">> \o t : n \in names, t \in TextsOf(DispatchWords, MaxArgs)}
       \cup names
       \cup {n \o <<"a">> : n \in names}
       \cup {<<" ">> \o n : n \in names}

\* messages of user 1, in a chat that shows the sender or does not,
\* outgoing or incoming, replying to RepliedTo or not
Updates ==
    {<<Message(2, from, out, t, r)>> :
        from \in {<<>>, <<1>>}, out \in BOOLEAN, t \in UpdateTexts,
        r \in {<<>>, <<RepliedTo>>}}

Everyone == {User(1, <<"b">>), User(2, <<"a">>)}
Stored == {Peer(u.ID, u.Username) : u \in Everyone}

\* everything known locally; known only to the server; nothing known
Contexts ==
    {[Resolvable |-> Everyone, Peers |-> Stored, Remote |-> {}],
     [Resolvable |-> Everyone, Peers |-> {}, Remote |-> Everyone],
     [Resolvable |-> {}, Peers |-> {}, Remote |-> {}]}

InitDispatch ==
    /\ update \in Updates
    /\ command \in Commands
    /\ ctx \in Contexts
    /\ variant = "quote"
    /\ outcome = <<>>
    /\ text = <<>>
    /\ defs = <<>>
    /\ msg = <<>>
    /\ pos = 0
    /\ positionalCount = 0
    /\ positionalIndex = 0
    /\ args = EmptyArguments
    /\ ret = <<>>
    /\ err = <<>>
    /\ pc = "idle"

\* the quote-aware ParseArguments on the text Register has trimmed: its last
\* character is no space, so the scan never finds only spaces left
ParseTrimmed ==
    \/ Begin
    \/ ScanNamedBool
    \/ ScanNamedValue
    \/ ScanRest
    \/ ScanPositional
    \/ CheckRequired

NextDispatch == Register \/ Ignore \/ ParseTrimmed \/ Handle

SpecDispatch == InitDispatch /\ [][NextDispatch]_vars

Dispatched == update # <<>> /\ pc \in {"done", "handled"} /\ ret # <<>>

\* C7: after a dispatch through Register and the quote-aware ParseArguments
\* the bag's Reply is non-nil only if the invoking message replies to
\* another one, and it is then that replied-to message, never the invoking
\* message.
C7_ReplyIsRepliedToMessage ==
    (Dispatched /\ args.Reply # <<>>) =>
        /\ update[1].ReplyToMessage # <<>>
        /\ args.Reply = update[1].ReplyToMessage
        /\ args.Reply # update

NoUserArgument == Len(args.Positional) = 0

\* C8: when the text of a ban command supplies no user argument and the
\* invoking message is no reply, GetUserFromArgs resolves no user and the
\* handler returns 'please provide a username/ID or reply to a message'.
C8_NoUserNoReplyIsAnError ==
    (/\ pc = "handled"
     /\ command.Handler = ban
     /\ ret # <<>>
     /\ NoUserArgument
     /\ update[1].ReplyToMessage = <<>>) =>
        /\ outcome[1].user = <<>>
        /\ outcome[1].banned = <<>>
        /\ outcome[1].err = <<"please provide a username/ID or reply to a message">>

(***************************************************************************)
(* Direct calls of the quote-aware ParseArguments on further inputs.        *)
(***************************************************************************)
\* ParseArguments(text, defs, nil) with the text and the schema drawn from
\* the given sets
DirectCall(texts, schemas) ==
    /\ text \in texts
    /\ defs \in schemas
    /\ msg = <<>>
    /\ pos = 0
    /\ positionalCount = 0
    /\ positionalIndex = 0
    /\ args = EmptyArguments
    /\ ret = <<>>
    /\ err = <<>>
    /\ pc = "start"
    /\ variant = "quote"
    /\ update = <<>>
    /\ command = <<>>
    /\ ctx = <<>>
    /\ outcome = <<>>

(***************************************************************************)
(* Flags between positional values: the "mixed arguments with rest" test    *)
(* (part_000 lines 1083-1105), the flag called s, over texts of up to       *)
(* MaxTokens words.                                                         *)
(***************************************************************************)
MaxTokens == 6

\* part_000 lines 1086-1090
SchemaMixedString ==
    <<Positional(first, TypeString, FALSE), Named(<<"s">>, TypeString, FALSE),
      Positional(second, TypeString, FALSE)>>

\* the same schema, the flag a Bool
SchemaMixedBool ==
    <<Positional(first, TypeString, FALSE), Named(<<"s">>, TypeBool, FALSE),
      Positional(second, TypeString, FALSE)>>

MixedSchemas == {SchemaMixedString, SchemaMixedBool}

MixedWords == {<<>>, <<"a">>, <<"b">>, <<"-", "s">>}

MixedTexts == TextsOf(MixedWords, MaxTokens)

InitMixed == DirectCall(MixedTexts, MixedSchemas)

SpecMixed == InitMixed /\ [][Next]_vars

RECURSIVE ValueTokens(_, _)
\* the tokens of a text that are no recognized flag and no value of one
ValueTokens(parts, d) ==
    IF parts = <<>> THEN <<>>
    ELSE IF HasPrefix(parts[1], <<"-">>)
            /\ FindNamed(d, TrimPrefix(parts[1], <<"-">>)) # 0
    THEN IF d[FindNamed(d, TrimPrefix(parts[1], <<"-">>))].Type = TypeBool
         THEN ValueTokens(Tail(parts), d)
         ELSE IF Len(parts) = 1 THEN <<>>
         ELSE ValueTokens(Tail(Tail(parts)), d)
    ELSE <<parts[1]>> \o ValueTokens(Tail(parts), d)

\* the text of the test with its words shortened: pos1 -flag1 value1 pos2
\* remaining text
MixedTestText == Join(<<<<"a">>, <<"-", "s">>, <<"b">>, <<"a">>, <<"b">>, <<"a">>>>)

\* C11: a named flag and its value between positional values disturb neither
\* the positional counting nor the rest capture: the positional values of a
\* returned bag are the tokens of the text that are no recognized flag and no
\* value of one, in input order; the text of the "mixed arguments with rest"
\* test yields positional 0 = a, s = b, positional 1 = a and Rest = b a.
C11_FlagsBetweenPositionals ==
    Returned =>
        LET tokens == ValueTokens(Fields(text, <<>>, <<>>), defs)
        IN /\ Len(ret[1].Positional) =
                 IF Len(tokens) < positionalCount THEN Len(tokens) ELSE positionalCount
           /\ \A k \in 1..Len(ret[1].Positional) :
                 GetPositionalString(ret[1], k - 1) = tokens[k]
           /\ (text = MixedTestText /\ defs = SchemaMixedString)
                 => /\ GetPositionalString(ret[1], 0) = <<"a">>
                    /\ GetString(ret[1], <<"s">>) = <<"b">>
                    /\ GetPositionalString(ret[1], 1) = <<"a">>
                    /\ GetRest(ret[1]) = <<"b", " ", "a">>

(***************************************************************************)
(* Quoted values: the "quoted arguments" test (part_000 lines 1027-1046)    *)
(* over every text of up to MaxLen characters drawn from a letter, the      *)
(* space, the quote and the backslash, alone or as the value of the flag a. *)
(***************************************************************************)
MaxLen == 7

Quote == "\""
Backslash == "\\"

QuoteChars == {"a", " ", Quote, Backslash}

Strings(chars, n) == UNION {[1..k -> chars] : k \in 0..n}

FlagA == <<"-", "a", " ">>

QuotedTexts ==
    Strings(QuoteChars, MaxLen)
    \cup {FlagA \o t : t \in Strings(QuoteChars, MaxLen - Len(FlagA))}

\* a positional String and the flag a, a String or a Bool
SchemaQuotedFlag ==
    <<Positional(first, TypeString, FALSE), Named(<<"a">>, TypeString, FALSE)>>
SchemaQuotedBool ==
    <<Positional(first, TypeString, FALSE), Named(<<"a">>, TypeBool, FALSE)>>

QuotedSchemas == {SchemaBasicPositional, SchemaQuotedFlag, SchemaQuotedBool}

InitQuoted == DirectCall(QuotedTexts, QuotedSchemas)

SpecQuoted == InitQuoted /\ [][Next]_vars

Plain(s) == \A i \in 1..Len(s) : s[i] \notin {Quote, Backslash}

\* the text is "inner" z: inner without quote and backslash, z one plain word
QuotedThenWord(inner, z) ==
    /\ text = <<Quote>> \o inner \o <<Quote, " ">> \o z
    /\ Plain(inner)
    /\ Plain(z)
    /\ z # <<>>
    /\ \A i \in 1..Len(z) : z[i] # " "

\* C12: a double-quoted value is bound as one value, its delimiting quotes
\* removed and its inner spaces kept: with two positional String definitions
\* every text of the form "x y" z yields positional 0 = x y and positional
\* 1 = z.
C12_QuotedValueIsOneValue ==
    (Done /\ defs = SchemaBasicPositional) =>
        \A i \in 2..Len(text) :
            LET inner == SubSeq(text, 2, i - 1)
                z == SubSeq(text, i + 2, Len(text))
            IN QuotedThenWord(inner, z) =>
                  /\ Returned
                  /\ Len(ret[1].Positional) = 2
                  /\ GetPositionalString(ret[1], 0) = inner
                  /\ GetPositionalString(ret[1], 1) = z
                  /\ GetRest(ret[1]) = <<>>

\* the text "a a" a was parsed: positional 0 is a a, positional 1 is a
C12_Witness ==
    /\ Returned
    /\ defs = SchemaBasicPositional
    /\ text = <<Quote, "a", " ", "a", Quote, " ", "a">>
    /\ GetPositionalString(ret[1], 0) = <<"a", " ", "a">>
    /\ GetPositionalString(ret[1], 1) = <<"a">>

RECURSIVE Unescaped(_)
\* what the claim makes of the characters after an opening quote: a backslash
\* is dropped and the character after it taken literally, a quote that no
\* backslash precedes ends the value
Unescaped(s) ==
    IF s = <<>> THEN <<>>
    ELSE IF s[1] = Backslash /\ Len(s) >= 2
    THEN <<s[2]>> \o Unescaped(SubSeq(s, 3, Len(s)))
    ELSE IF s[1] = Quote THEN <<>>
    ELSE <<s[1]>> \o Unescaped(Tail(s))

RECURSIVE EndsInBackslash(_)
\* the value after an opening quote runs into a backslash that is the last
\* character of the text, which no character follows
EndsInBackslash(s) ==
    IF s = <<>> THEN FALSE
    ELSE IF s[1] = Backslash
    THEN Len(s) = 1 \/ EndsInBackslash(SubSeq(s, 3, Len(s)))
    ELSE IF s[1] = Quote THEN FALSE
    ELSE EndsInBackslash(Tail(s))

\* the text "\"a\"", the test's "escaped \"quote\"" shortened
EscapedQuoteText == <<Quote, Backslash, Quote, "a", Backslash, Quote, Quote>>

\* C13: inside a quoted value a backslash is dropped and the character that
\* follows it, a quote or another backslash included, is taken literally and
\* does not end the value; this holds for a quoted positional value and for
\* the quoted value of a named flag.
C13_BackslashEscapes ==
    Returned =>
        /\ (text # <<>> /\ text[1] = Quote /\ ~EndsInBackslash(Tail(text)))
              => GetPositionalString(ret[1], 0) = Unescaped(Tail(text))
        /\ (/\ defs = SchemaQuotedFlag
            /\ HasPrefix(text, FlagA \o <<Quote>>)
            /\ ~EndsInBackslash(TrimPrefix(text, FlagA \o <<Quote>>)))
              => GetString(ret[1], <<"a">>) =
                    Unescaped(TrimPrefix(text, FlagA \o <<Quote>>))
        /\ text = EscapedQuoteText
              => GetPositionalString(ret[1], 0) = <<Quote, "a", Quote>>

\* the text "\"a\"" was parsed: positional 0 is "a", quotes included
C13_Witness ==
    /\ Returned
    /\ text = EscapedQuoteText
    /\ GetPositionalString(ret[1], 0) = <<Quote, "a", Quote>>

(***************************************************************************)
(* Dashes: every text of up to MaxChars characters drawn from a letter, a   *)
(* digit, the space, the dash, the equals sign and the quote, against       *)
(* schemas that declare the flag a or no flag.                              *)
(***************************************************************************)
MaxChars == 5

DashChars == {"a", "1", " ", "-", "=", Quote}

DashTexts == Strings(DashChars, MaxChars)

\* an Int positional and the String flag a
SchemaDashInt ==
    <<Positional(first, TypeInt, FALSE), Named(<<"a">>, TypeString, FALSE)>>

\* no positional definition: every bare token starts the rest capture
SchemaFlagOnly == <<Named(<<"a">>, TypeString, FALSE)>>

DashSchemas ==
    {SchemaBasicPositional, SchemaQuotedFlag, SchemaQuotedBool, SchemaDashInt,
     SchemaFlagOnly}

InitDash == DirectCall(DashTexts, DashSchemas)

SpecDash == InitDash /\ [][Next]_vars

\* the run of characters other than the space that starts at p
BareToken(p) ==
    LET e == CHOOSE e \in p..Len(text) :
                /\ e = Len(text) \/ At(text, e) = " "
                /\ \A q \in p..(e - 1) : At(text, q) # " "
    IN Slice(text, p, e)

\* the token at p begins with a dash and is the flag of no Named definition
UnknownDashAt(p) ==
    /\ At(text, p) = "-"
    /\ \A i \in 1..Len(defs) :
          defs[i].Kind = KindNamed => ~FlagWrittenAt(p, defs[i].Name)

\* the step that meets such a token at p binds the whole token, dash
\* included, as the next positional value, or starts the rest capture at the
\* dash; it fails only when the token does not coerce to the type of a
\* positional definition
UnknownDashStep(p) ==
    (pc = "scan" /\ NextTokenAt(p) /\ UnknownDashAt(p)) =>
        /\ args'.Named = args.Named
        /\ IF positionalIndex < positionalCount
           THEN \/ /\ err' = <<>>
                   /\ Len(args'.Positional) = Len(args.Positional) + 1
                   /\ SubSeq(args'.Positional, 1, Len(args.Positional)) = args.Positional
                   /\ args'.Positional[Len(args'.Positional)].RawValue = BareToken(p)
                   /\ args'.Rest = args.Rest
                   /\ pos' = p + Len(BareToken(p))
                \/ /\ err' # <<>>
                   /\ pc' = "done"
                   /\ \E i \in 1..Len(defs) :
                         /\ defs[i].Kind = KindPositional
                         /\ parseValue(BareToken(p), defs[i].Type)[2] # <<>>
                         /\ err'[1] = ArgumentError(defs[i].Name,
                                         parseValue(BareToken(p), defs[i].Type)[2][1])
           ELSE /\ err' = <<>>
                /\ args'.Positional = args.Positional
                /\ args'.Rest # <<>>
                /\ args'.Rest[1].RawValue = TrimSpace(Slice(text, p, Len(text)))
                /\ pc' = "required"

\* a negative number is a positional value, and a dash token after the
\* positional slots starts the rest
DashTokensInBag ==
    Done =>
        /\ (defs = SchemaDashInt /\ text = <<"-", "1">>)
              => Returned /\ GetPositional(ret[1], 0) = IntValue(0 - 1)
        /\ (defs = SchemaFlagOnly /\ text = <<"-", "1", " ", "a">>)
              => Returned /\ GetRest(ret[1]) = <<"-", "1", " ", "a">>

\* C14: a token that begins with a dash and names no declared Named
\* definition is no error by itself: the whole token, dash included, is
\* bound as the next positional value or starts the rest capture, so that a
\* negative number can be a positional value.
C14_UnknownFlagIsAValue ==
    /\ [][\A p \in 0..Len(text) : UnknownDashStep(p)]_vars
    /\ []DashTokensInBag

\* the negative number -1 was bound as the Int positional value
C14_Witness ==
    /\ Returned
    /\ defs = SchemaDashInt
    /\ text = <<"-", "1">>
    /\ GetPositionalInt(ret[1], 0) = 0 - 1

\* a step binds a named argument only at a token that begins with a dash
\* standing at index 0 or right after a space, and binds the flag written there
NamedBoundAtFlagStart ==
    args'.Named # args.Named =>
        /\ pc = "scan"
        /\ \E p \in 0..Len(text), i \in 1..Len(defs) :
              /\ NextTokenAt(p)
              /\ p = 0 \/ At(text, p - 1) = " "
              /\ defs[i].Kind = KindNamed
              /\ FlagWrittenAt(p, defs[i].Name)
              /\ DOMAIN args'.Named = DOMAIN args.Named \cup {defs[i].Name}

\* a dash inside a bare token, after a closing quote and after an equals
\* sign, each followed by the name of the declared flag a
InnerDashesInBag ==
    Done =>
        /\ (defs = SchemaQuotedFlag /\ text = <<"a", "-", "a">>)
              => /\ Returned
                 /\ DOMAIN ret[1].Named = {}
                 /\ GetPositionalString(ret[1], 0) = <<"a", "-", "a">>
        /\ (defs = SchemaQuotedBool /\ text = <<Quote, "a", Quote, "-", "a">>)
              => /\ Returned
                 /\ DOMAIN ret[1].Named = {}
                 /\ GetPositionalString(ret[1], 0) = <<"a">>
                 /\ GetRest(ret[1]) = <<"-", "a">>
        /\ (defs = SchemaQuotedBool /\ text = <<"-", "a", "=", "-", "a">>)
              => /\ Returned
                 /\ GetPositionalString(ret[1], 0) = <<"-", "a">>

\* C15: flag recognition is attempted only for a dash at index 0 of the text
\* or right after a space: a dash inside a bare token, directly after a
\* closing quote or directly after an equals sign never binds a named
\* argument, even when the characters after it spell a declared flag name.
C15_FlagOnlyAfterSpaceOrAtStart ==
    /\ [][NamedBoundAtFlagStart]_vars
    /\ []InnerDashesInBag

\* the text "a"-a was parsed with the Bool flag a declared: no flag is bound
\* and -a is the rest
C15_Witness ==
    /\ Returned
    /\ defs = SchemaQuotedBool
    /\ text = <<Quote, "a", Quote, "-", "a">>
    /\ DOMAIN ret[1].Named = {}
    /\ GetRest(ret[1]) = <<"-", "a">>

\* the token at p is the flag of a Named definition
RecognizedFlagAt(p) ==
    \E i \in 1..Len(defs) : defs[i].Kind = KindNamed /\ FlagWrittenAt(p, defs[i].Name)

\* every Positional definition of the schema has its value
SlotsFilled == Len(args.Positional) >= CountPositional(defs)

\* with the slots filled, the step that meets at p a token that is no
\* recognized flag makes the trimmed text from p to the end the rest, binds
\* nothing else and ends the scan
RestStep(p) ==
    (pc = "scan" /\ NextTokenAt(p) /\ SlotsFilled /\ ~RecognizedFlagAt(p)) =>
        /\ GetRest(args') = TrimSpace(Slice(text, p, Len(text)))
        /\ args'.Named = args.Named
        /\ args'.Positional = args.Positional
        /\ err' = <<>>
        /\ pc' = "required"

\* after the scan the bag does not change any more
ScanStopped == pc \in {"required", "done"} => args' = args

\* a flag inside the rest is not bound
RestKeepsFlags ==
    (Done /\ defs = SchemaBooleanFlags /\ text = <<"a", " ", "-", "b">>) =>
        /\ Returned
        /\ DOMAIN ret[1].Named = {}
        /\ GetRest(ret[1]) = <<"a", " ", "-", "b">>

\* C16: once all positional slots are filled, the first token that is no
\* recognized flag starts the rest capture: Rest becomes the trimmed text
\* from the first character of that token to the end, the scan stops, and no
\* named flag inside that remainder is bound.
C16_RestCapture ==
    /\ [][(\A p \in 0..Len(text) : RestStep(p)) /\ ScanStopped]_vars
    /\ []RestKeepsFlags

\* the text a -b was parsed with no positional definition: the rest is a -b
\* and the flag b is not bound
C16_Witness ==
    /\ Returned
    /\ defs = SchemaBooleanFlags
    /\ text = <<"a", " ", "-", "b">>
    /\ DOMAIN ret[1].Named = {}
    /\ GetRest(ret[1]) = <<"a", " ", "-", "b">>

\* the schema declares Positional and Named definitions only: the kinds of
\* part_000 lines 27-33 hold no Rest kind
NoRestDefinition ==
    \A i \in 1..Len(defs) : defs[i].Kind \in {KindPositional, KindNamed}

\* C17 as claimed: with no Rest definition declared, the input that remains
\* after the positional slots are filled causes no error and is stored
\* nowhere in the returned bag: Rest stays absent.
C17_RemainderDiscarded ==
    (Returned /\ NoRestDefinition) => ret[1].Rest = <<>>

\* with the slots filled, the step that meets at p a token that is no
\* recognized flag stores the trimmed remaining input as the argument rest
RemainderStep(p) ==
    (/\ pc = "scan" /\ NextTokenAt(p) /\ SlotsFilled /\ ~RecognizedFlagAt(p)
     /\ NoRestDefinition) =>
        LET remainder == TrimSpace(Slice(text, p, Len(text)))
        IN /\ remainder # <<>>
           /\ args'.Rest =
                 <<ParsedArgument(RestName, StringValue(remainder), remainder)>>
           /\ err' = <<>>

\* an error after the rest was stored comes from the required check
RemainderIsNoError ==
    (Done /\ args.Rest # <<>> /\ err # <<>>) => err[1].Message \in RequiredMessages

\* C17 as amended: the quote-aware ParseArguments knows no Rest kind; the
\* input that remains after the positional slots are filled causes no error
\* and is always stored, trimmed, as the bag's Rest, whatever the schema
\* declares.
C17_RemainderKeptAsRest ==
    /\ [][\A p \in 0..Len(text) : RemainderStep(p)]_vars
    /\ []RemainderIsNoError

\* two positional definitions and three words: the third word is the rest of
\* the returned bag
C17_Witness ==
    /\ Returned
    /\ NoRestDefinition
    /\ defs = SchemaBasicPositional
    /\ text = <<"a", " ", "1", " ", "a">>
    /\ ret[1].Rest = <<ParsedArgument(RestName, StringValue(<<"a">>), <<"a">>)>>

\* definition i is the Named definition that the flag of its name selects,
\* and its type is not Bool
ValueFlag(i) ==
    /\ defs[i].Kind = KindNamed
    /\ defs[i].Type # TypeBool
    /\ \A j \in 1..(i - 1) : ~(defs[j].Kind = KindNamed /\ defs[j].Name = defs[i].Name)

\* the step that meets at p the flag of definition i with nothing but spaces
\* after it fails with an error that names the flag and binds nothing
LastFlagStep(p, i) ==
    (/\ pc = "scan" /\ NextTokenAt(p) /\ ValueFlag(i)
     /\ FlagWrittenAt(p, defs[i].Name)
     /\ \A q \in (p + 1 + Len(defs[i].Name))..(Len(text) - 1) : At(text, q) = " ") =>
        /\ err' # <<>>
        /\ err'[1].Argument = defs[i].Name
        /\ ret' = <<>>
        /\ args'.Named = args.Named

\* C18: a recognized named flag of a type other than Bool that is the last
\* thing in the input produces an error; it is never bound to the empty
\* string.
C18_FlagWithoutValueFails ==
    [][\A p \in 0..Len(text), i \in 1..Len(defs) : LastFlagStep(p, i)]_vars

(***************************************************************************)
(* Entity resolution: Arguments.ResolveEntity, ResolvePositionalEntity and  *)
(* ResolveRestEntity (part_000 lines 71-160) and utilities.ResolveUser, each *)
(* applied to a raw string of up to MaxRaw characters in a context where    *)
(* the handle 42 and the id 42 belong to different users.                   *)
(***************************************************************************)
MaxRaw == 3

\* functions.GetInputPeerClassFromId: nil, here FALSE, for an id that the
\* peer storage does not hold
GetInputPeerClassFromId(c, id) == \E p \in c.Peers : p.ID = id

\* the lookup with its two steps reordered: the numeric id is tried before
\* the handle
EntityLookupIdFirst(c, raw) ==
    LET username == TrimPrefix(raw, <<"@">>)
        id == AtoiVal(raw)
        failed == <<"could not resolve entity", raw>>
        byPeer == <<Call("GetInputPeerClassFromId", id)>>
        byId == Append(byPeer, Call("ResolveUsername", Itoa(id)))
        tried == IF ~AtoiOk(raw) THEN <<>>
                 ELSE IF GetInputPeerClassFromId(c, id) THEN byId ELSE byPeer
        byName == Append(tried, Call("ResolveUsername", username))
    IN IF /\ AtoiOk(raw)
          /\ GetInputPeerClassFromId(c, id)
          /\ ResolveUsername(c, Itoa(id)) # <<>>
       THEN Resolved(c, ResolveUsername(c, Itoa(id)), byId)
       ELSE IF ResolveUsername(c, username) # <<>>
       THEN Resolved(c, ResolveUsername(c, username), byName)
       ELSE Unresolved(c, failed, byName)

\* a lookup whose fallback asks for the user of the id itself and not for
\* the handle the id is written as
EntityLookupById(c, raw) ==
    LET username == TrimPrefix(raw, <<"@">>)
        id == AtoiVal(raw)
        failed == <<"could not resolve entity", raw>>
        byName == <<Call("ResolveUsername", username)>>
        byPeer == Append(byName, Call("GetInputPeerClassFromId", id))
        byId == Append(byPeer, Call("GetUser", id))
        known == {u \in c.Resolvable : u.ID = id}
    IN IF ResolveUsername(c, username) # <<>>
       THEN Resolved(c, ResolveUsername(c, username), byName)
       ELSE IF ~AtoiOk(raw) THEN Unresolved(c, failed, byName)
       ELSE IF ~GetInputPeerClassFromId(c, id) THEN Unresolved(c, failed, byPeer)
       ELSE IF known # {}
       THEN Resolved(c, <<CHOOSE u \in known : TRUE>>, byId)
       ELSE Unresolved(c, failed, byId)

\* the lookup the three methods share: part_000 lines 75-97, 105-127, 139-159
EntityLookup(c, raw) ==
    LET username == TrimPrefix(raw, <<"@">>)
        id == AtoiVal(raw)
        failed == <<"could not resolve entity", raw>>
        byName == <<Call("ResolveUsername", username)>>
        byPeer == Append(byName, Call("GetInputPeerClassFromId", id))
        byId == Append(byPeer, Call("ResolveUsername", Itoa(id)))
    IN IF ResolveUsername(c, username) # <<>>
       THEN Resolved(c, ResolveUsername(c, username), byName)
       ELSE IF ~AtoiOk(raw) THEN Unresolved(c, failed, byName)
       ELSE IF ~GetInputPeerClassFromId(c, id) THEN Unresolved(c, failed, byPeer)
       ELSE IF ResolveUsername(c, Itoa(id)) # <<>>
       THEN Resolved(c, ResolveUsername(c, Itoa(id)), byId)
       ELSE Unresolved(c, failed, byId)

\* part_000 lines 72-99
ResolveEntity(c, a, name) ==
    IF GetEntity(a, name) # <<>> THEN EntityLookup(c, GetEntity(a, name))
    ELSE Unresolved(c, <<"entity argument not found", name>>, <<>>)

\* part_000 lines 102-129
ResolvePositionalEntity(c, a, index) ==
    IF GetPositionalEntity(a, index) # <<>>
    THEN EntityLookup(c, GetPositionalEntity(a, index))
    ELSE Unresolved(c, <<"entity argument not found at index", index>>, <<>>)

\* part_000 lines 132-160: no rest is no user and no error
ResolveRestEntity(c, a) ==
    IF GetRest(a) = <<>> THEN Resolved(c, <<>>, <<>>)
    ELSE EntityLookup(c, GetRest(a))

RawChars == {"4", "2", "0", "@", "a"}

Raws == Strings(RawChars, MaxRaw)

\* a bag that holds the raw string as the entity user, as positional 0 and
\* as the rest
EntityBag(raw) ==
    [Positional |-> <<ParsedArgument(user, StringValue(raw), raw)>>,
     Named |-> SetNamed(<<>>, user, ParsedArgument(user, StringValue(raw), raw)),
     Rest |-> IF raw = <<>> THEN <<>>
              ELSE <<ParsedArgument(RestName, StringValue(raw), raw)>>,
     Raw |-> raw, Reply |-> <<>>]

\* the user whose handle is 42 and the user whose id is 42
Handle42 == User(1, <<"4", "2">>)
Id42 == User(42, <<"a">>)

ResolveContexts ==
    {[Resolvable |-> r, Peers |-> {Peer(u.ID, u.Username) : u \in p}, Remote |-> m] :
        r \in SUBSET {Handle42, Id42}, p \in SUBSET {Handle42, Id42},
        m \in SUBSET {Id42}}

InitResolve ==
    /\ text \in Raws
    /\ args = EntityBag(text)
    /\ ctx \in ResolveContexts
    /\ pc = "resolve"
    /\ outcome = <<>>
    /\ defs = <<>>
    /\ msg = <<>>
    /\ pos = 0
    /\ positionalCount = 0
    /\ positionalIndex = 0
    /\ ret = <<>>
    /\ err = <<>>
    /\ variant = "quote"
    /\ update = <<>>
    /\ command = <<>>

\* a resolution ends in one step: its result and the context it leaves
Resolving(function, result) ==
    /\ pc = "resolve"
    /\ outcome' = <<[function |-> function, user |-> result.user,
                     err |-> result.err, calls |-> result.calls]>>
    /\ ctx' = result.ctx
    /\ pc' = "resolved"
    /\ UNCHANGED <<variant, update, command, text, defs, msg, pos, positionalCount,
                   positionalIndex, args, ret, err>>

ResolveEntityCall == Resolving("ResolveEntity", ResolveEntity(ctx, args, user))
ResolvePositionalEntityCall ==
    Resolving("ResolvePositionalEntity", ResolvePositionalEntity(ctx, args, 0))
ResolveRestEntityCall == Resolving("ResolveRestEntity", ResolveRestEntity(ctx, args))
ResolveUserCall == Resolving("ResolveUser", ResolveUser(ctx, text))

NextResolve ==
    \/ ResolveEntityCall
    \/ ResolvePositionalEntityCall
    \/ ResolveRestEntityCall
    \/ ResolveUserCall

SpecResolve == InitResolve /\ [][NextResolve]_vars

\* the raw string without one leading @
HandleOf(raw) == IF raw # <<>> /\ raw[1] = "@" THEN Tail(raw) ELSE raw

\* the users of the handle
UsersOfHandle(handle) == {u \in ctx.Resolvable : u.Username = handle}

NumericLookups == {"GetPeerById", "GetInputPeerClassFromId", "GetUser"}

\* C19: ResolveEntity, ResolvePositionalEntity, ResolveRestEntity and
\* ResolveUser make the handle lookup, on the raw string with one leading @
\* stripped, before any numeric-id lookup; when the handle lookup returns a
\* user, that user is the result and no numeric lookup is made, also for the
\* all-digit raw string 42.
C19_HandleBeforeNumericId ==
    (pc = "resolved" /\ outcome[1].calls # <<>>) =>
        /\ outcome[1].calls[1].function = "ResolveUsername"
        /\ outcome[1].calls[1].argument = HandleOf(text)
        /\ UsersOfHandle(HandleOf(text)) # {}
              => /\ outcome[1].user # <<>>
                 /\ outcome[1].user[1] \in UsersOfHandle(HandleOf(text))
                 /\ outcome[1].err = <<>>
                 /\ Len(outcome[1].calls) = 1
        /\ (text = <<"4", "2">> /\ Handle42 \in ctx.Resolvable)
              => outcome[1].user = <<Handle42>>

\* the raw string 42 was resolved where both the handle 42 and the id 42
\* are known: the result is the user of the handle
C19_Witness ==
    /\ pc = "resolved"
    /\ text = <<"4", "2">>
    /\ ctx.Resolvable = {Handle42, Id42}
    /\ \E p \in ctx.Peers : p.ID = 42
    /\ outcome[1].user = <<Handle42>>
    /\ Len(outcome[1].calls) = 1
    /\ outcome[1].calls[1].function = "ResolveUsername"

(***************************************************************************)
(* The duration of ban and mute: GetDuration (part_000 lines 211-219),      *)
(* BanUser (utils.go lines 167-177) and the mute handler (system.go lines   *)
(* 351-359), after a dispatch of `.ban` or `.mute`.                         *)
(***************************************************************************)
\* the handler of ban or mute ran and acted on a user
Sanctioned ==
    /\ Dispatched
    /\ pc = "handled"
    /\ command.Handler \in {ban, mute}
    /\ outcome[1].err = <<>>

\* the ban or the restriction the handler asked for
Sanction == (outcome[1].banned \o outcome[1].muted)[1]

\* the text bound the flag duration; the scan binds it from no other source
DurationSupplied == duration \in DOMAIN args.Named

\* what GetDuration returns for a bag without the flag
NoDuration == GetDuration(EmptyArguments, duration)

\* C20: a command with no -duration flag yields the no-duration result of
\* GetDuration and is treated as permanent (no until-date) by ban and mute;
\* a command with an explicit duration, zero-length or not, yields a
\* different result of GetDuration and is not treated as permanent.
C20_DurationDistinction ==
    Sanctioned =>
        /\ ~DurationSupplied
              => /\ GetDuration(args, duration) = NoDuration
                 /\ Sanction.Until = <<>>
        /\ DurationSupplied
              => /\ GetDuration(args, duration) # NoDuration
                 /\ Sanction.Until # <<>>

\* the part of C20 about the absent flag and about durations that are not
\* zero-length
C20_NonZeroDurationDistinct ==
    Sanctioned =>
        /\ ~DurationSupplied
              => /\ GetDuration(args, duration) = NoDuration
                 /\ Sanction.Until = <<>>
        /\ (DurationSupplied /\ Get(args, duration).v # ZeroDuration)
              => /\ GetDuration(args, duration) # NoDuration
                 /\ Sanction.Until # <<>>

\* `.mute a -duration 0h` was handled: the explicit zero-length duration
\* reads as the no-duration result and the mute is permanent
C20_ZeroDurationIsPermanent ==
    /\ Sanctioned
    /\ command.Handler = mute
    /\ update[1].Text = defaultPrefix \o mute \o <<" ", "a", " ", "-">> \o duration
                            \o <<" ", "0", "h">>
    /\ DurationSupplied
    /\ GetDuration(args, duration) = NoDuration
    /\ Sanction.Until = <<>>
    /\ Sanction.Text = "permanently"

(***************************************************************************)
(* Termination of the quote-aware scan (part_000 lines 367-523), over the   *)
(* texts of dashes, where unknown flags reset the position to the dash.     *)
(***************************************************************************)
\* the loop is a sequential program: a step that can be taken is taken
SpecTerminates == InitDash /\ [][Next]_vars /\ WF_vars(Next)

\* C21: the quote-aware ParseArguments terminates for every text and every
\* schema: an iteration of the scan loop that neither returns nor breaks
\* strictly increases the scan position, the position never passes the end
\* of the text, and the call returns.
C21_ScanTerminates ==
    /\ [][(pc = "scan" /\ pc' = "scan") => pos' > pos]_vars
    /\ [](pos <= Len(text))
    /\ <>(pc = "done")

\* `-1 -a` was parsed against an Int positional and the flag a: the unknown
\* flag -1 was reset to its dash and read as the positional, the scan went
\* on to the end of the text and the call returned
C21_Witness ==
    /\ Returned
    /\ text = <<"-", "1", " ", "-", "a">>
    /\ defs = SchemaDashInt
    /\ pos = Len(text)
    /\ Len(args.Positional) = 1
    /\ <<"a">> \in DOMAIN args.Named

(***************************************************************************)
(* The message filter of Command.Register (types.go lines 161-223) alone:   *)
(* commands named help with or without the alias h, a prefix of their own,  *)
(* a handler, and each direction enabled or not, against messages whose     *)
(* text starts like a command or does not.                                  *)
(***************************************************************************)
help == <<"h", "e", "l", "p">>

\* the commands the builder methods make of NewCommand("help")
Built ==
    {WithAliases(WithPrefix(WithIncoming(WithOutgoing(NewCommand(help, <<>>), o), i), p), a) :
        o \in BOOLEAN, i \in BOOLEAN, p \in {<<>>, <<"!">>},
        a \in {<<>>, <<<<"h">>>>}}

RegisterCommands == Built \cup {WithoutHandler(c) : c \in Built}

\* texts that are a command, a command and more, or no command
RegisterTexts ==
    {lead \o p \o n \o more :
        lead \in {<<>>, <<" ">>}, p \in {<<".">>, <<"!">>, <<>>},
        n \in {help, <<"h">>},
        more \in {<<>>, <<" ">>, <<" ", "a">>, <<"a">>, <<"m", "e">>, <<"\n", "a">>}}

RegisterUpdates ==
    {<<Message(2, <<1>>, out, t, <<>>)>> : out \in BOOLEAN, t \in RegisterTexts}

InitRegister ==
    /\ update \in RegisterUpdates
    /\ command \in RegisterCommands
    /\ ctx = [Resolvable |-> {}, Peers |-> {}, Remote |-> {}]
    /\ variant = "quote"
    /\ outcome = <<>>
    /\ text = <<>>
    /\ defs = <<>>
    /\ msg = <<>>
    /\ pos = 0
    /\ positionalCount = 0
    /\ positionalIndex = 0
    /\ args = EmptyArguments
    /\ ret = <<>>
    /\ err = <<>>
    /\ pc = "idle"

\* the dispatcher offers the message to the handlers of the command
NextRegister == Register \/ Ignore

SpecRegister == InitRegister /\ [][NextRegister]_vars

\* the text is prefix+name and nothing more, or prefix+name and a space
\* right after it
CommandText(t, cmd) ==
    \/ t = cmd
    \/ /\ Len(t) > Len(cmd)
       /\ SubSeq(t, 1, Len(cmd)) = cmd
       /\ t[Len(cmd) + 1] = " "

\* the direction of the message is enabled for the command
DirectionEnabled(c, m) == IF m.Out THEN c.Outgoing ELSE c.Incoming

\* the prefix of the command, the default one when it has none
CommandPrefix(c) == IF c.Prefix = <<>> THEN <<".">> ELSE c.Prefix

\* the message is for the command, under its name or one of its aliases
ForCommand(c, m) ==
    /\ DirectionEnabled(c, m)
    /\ \/ CommandText(m.Text, CommandPrefix(c) \o c.Name)
       \/ \E k \in 1..Len(c.Aliases) :
             CommandText(m.Text, CommandPrefix(c) \o c.Aliases[k])

HandlerRan == pc = "start"
HandlerSkipped == pc = "ignored"

\* C22: a handler registered by Register runs for a message exactly when the
\* text is prefix+name or prefix+alias, alone or with a space right after
\* it, and the direction of the message is enabled for the command; a
\* command with the directions of NewCommand never reacts to an incoming
\* message, and `.helpme` never triggers the command help.
C22_HandlerRunsIffCommandText ==
    /\ (HandlerRan => ForCommand(command, update[1]))
    /\ (HandlerSkipped /\ command.Handler # <<>>) => ~ForCommand(command, update[1])
    /\ (HandlerRan /\ command.Outgoing /\ ~command.Incoming) => update[1].Out
    /\ update[1].Text = <<".">> \o help \o <<"m", "e">> => ~HandlerRan

\* the outgoing message `.help a` ran the handler of help
C22_Witness ==
    /\ HandlerRan
    /\ command = NewCommand(help, <<>>)
    /\ update[1].Out
    /\ update[1].Text = <<".">> \o help \o <<" ", "a">>
    /\ text = <<"a">>

\* `.helpme` was offered to the command help and no handler ran
C22_HelpmeIgnored ==
    /\ HandlerSkipped
    /\ command = NewCommand(help, <<>>)
    /\ update[1].Out
    /\ update[1].Text = <<".">> \o help \o <<"m", "e">>

(***************************************************************************)
(* The value of a flag and the spaces before it (part_000 lines 398-448).   *)
(***************************************************************************)
\* the flag s, MoreSpaces + 1 spaces and the value b
FlagThenValue(MoreSpaces) ==
    <<"-", "s", " ">> \o [k \in 1..MoreSpaces |-> " "] \o <<"b">>

\* C23: a recognized flag that is no Bool binds the next token as its value
\* however many spaces stand between them: `-s b` and `-s  b` both bind s to
\* b and bind no positional.
C23_FlagValueAfterSpaces ==
    (Done /\ defs = SchemaMixedString /\ text \in {FlagThenValue(0), FlagThenValue(1)}) =>
        /\ Returned
        /\ GetString(ret[1], <<"s">>) = <<"b">>
        /\ ret[1].Positional = <<>>
        /\ ret[1].Rest = <<>>

\* the same for the single space only
C23_FlagValueAfterOneSpace ==
    (Done /\ defs = SchemaMixedString /\ text = FlagThenValue(0)) =>
        /\ Returned
        /\ GetString(ret[1], <<"s">>) = <<"b">>
        /\ ret[1].Positional = <<>>
        /\ ret[1].Rest = <<>>

\* `-s  b` was parsed: s is bound to the empty string and b is positional 0
C23_EmptyValueBound ==
    /\ Returned
    /\ defs = SchemaMixedString
    /\ text = FlagThenValue(1)
    /\ GetString(ret[1], <<"s">>) = <<>>
    /\ <<"s">> \in DOMAIN ret[1].Named
    /\ GetPositionalString(ret[1], 0) = <<"b">>

(***************************************************************************)
(* Reply-typed definitions and the text (part_000 lines 357-363, 476-483    *)
(* and 940-958), over the calls with Reply schemas in both variants.        *)
(***************************************************************************)
\* the names of the Reply-typed definitions
ReplyNames == {defs[i].Name : i \in {j \in 1..Len(defs) : defs[j].Type = TypeReply}}

\* the positional slots the text can fill: the Positional definitions that
\* are not Reply-typed
TextSlots ==
    Cardinality({i \in 1..Len(defs) :
                    defs[i].Kind = KindPositional /\ defs[i].Type # TypeReply})

\* C24: in both variants a Reply-typed definition consumes no text token
\* and is no positional slot, whatever its Kind: no positional value carries
\* the name of a Reply definition, and no more positional values are bound
\* than there are Positional definitions of another type.
C24_ReplyTakesNoText ==
    Returned =>
        /\ \A k \in 1..Len(ret[1].Positional) : ret[1].Positional[k].Name \notin ReplyNames
        /\ Len(ret[1].Positional) <= TextSlots

\* the quote-aware variant parsed `a 1` against the schema of ban: the Reply
\* definition counted as a second slot and 1 was bound as a positional
C24_ReplyCountsAsSlot ==
    /\ Returned
    /\ variant = "quote"
    /\ defs = SchemaBan
    /\ text = <<"a", " ", "1">>
    /\ Len(ret[1].Positional) = 2
    /\ ret[1].Positional[2].RawValue = <<"1">>
    /\ ret[1].Rest = <<>>

\* the quote-aware variant parsed `a` against a schema of one Reply
\* definition: a is bound under the name reply
C24_ReplyBindsToken ==
    /\ Returned
    /\ variant = "quote"
    /\ defs = SchemaRequiredReply
    /\ text = <<"a">>
    /\ Len(ret[1].Positional) = 1
    /\ ret[1].Positional[1].Name = reply
    /\ ret[1].Positional[1].RawValue = <<"a">>

\* the whitespace-splitting variant alone, where the bare tokens after the
\* first are dropped: the same statement
C24_ReplyTakesNoTextFields ==
    (Returned /\ variant = "fields") =>
        /\ \A k \in 1..Len(ret[1].Positional) : ret[1].Positional[k].Name \notin ReplyNames
        /\ Len(ret[1].Positional) <= TextSlots

(***************************************************************************)
(* RawValue (part_000 lines 404-447, 464-468, 511-519 and 907-952). The     *)
(* texts of the Reply calls hold no quote and no backslash: what is taken   *)
(* from them is a run of their characters.                                  *)
(***************************************************************************)
\* raw stands in t
Occurs(raw, t) ==
    \E i \in 0..(Len(t) - Len(raw)) : SubSeq(t, i + 1, i + Len(raw)) = raw

\* a predicate holds of every entry of a bag: positional, named and rest,
\* or variadic in a bag of the whitespace-splitting variant
EveryEntry(a, Holds(_)) ==
    /\ \A k \in 1..Len(a.Positional) : Holds(a.Positional[k])
    /\ \A n \in DOMAIN a.Named : Holds(a.Named[n])
    /\ IF "Rest" \in DOMAIN a
       THEN \A k \in 1..Len(a.Rest) : Holds(a.Rest[k])
       ELSE \A k \in 1..Len(a.Variadic) : Holds(a.Variadic[k])

\* a string Value, as the String and Entity types have it, equals RawValue
StringIsRaw(e) == e.Value.t = "string" => e.Value.v = e.RawValue

\* RawValue stands in the text, and a string Value equals it
RawFromText(e) == Occurs(e.RawValue, text) /\ StringIsRaw(e)

\* the same, nothing said of the RawValue of a boolean
RawFromTextUnlessBool(e) ==
    /\ e.Value.t # "bool" => Occurs(e.RawValue, text)
    /\ StringIsRaw(e)

\* C25: for every ParsedArgument of a returned bag RawValue is text taken
\* from the input, so it occurs in the input, and a string Value (String and
\* Entity types) equals RawValue.
C25_RawValueIsInputText == Returned => EveryEntry(ret[1], RawFromText)

\* the same for the entries that are not Bool flags
C25_RawValueExceptBoolFlags == Returned => EveryEntry(ret[1], RawFromTextUnlessBool)

\* `-silent` was parsed: the entry of silent has the RawValue true, which is
\* no part of the text
C25_FlagRawValueTrue ==
    /\ Returned
    /\ text = <<"-">> \o silent
    /\ silent \in DOMAIN ret[1].Named
    /\ ret[1].Named[silent].RawValue = <<"t", "r", "u", "e">>

(***************************************************************************)
(* A quoted value without its closing quote (part_000 lines 416-429 and     *)
(* 488-501), over the texts of quotes and backslashes.                      *)
(***************************************************************************)
RECURSIVE Unclosed(_)
\* no quote ends the value that starts s: every quote of s follows a
\* backslash that escapes it
Unclosed(s) ==
    IF s = <<>> THEN TRUE
    ELSE IF s[1] = Backslash /\ Len(s) >= 2 THEN Unclosed(SubSeq(s, 3, Len(s)))
    ELSE IF s[1] = Quote THEN FALSE
    ELSE Unclosed(Tail(s))

\* C26: a quoted value whose closing quote is never found runs to the end
\* of the input, its escapes processed and a backslash that is the last
\* character kept, and is bound without error: as the only positional value,
\* or as the value of the flag a.
C26_UnclosedQuoteRunsToEnd ==
    Done =>
        /\ (text # <<>> /\ text[1] = Quote /\ Unclosed(Tail(text)))
              => /\ Returned
                 /\ Len(ret[1].Positional) = 1
                 /\ GetPositionalString(ret[1], 0) = Unescaped(Tail(text))
                 /\ ret[1].Rest = <<>>
        /\ (/\ defs = SchemaQuotedFlag
            /\ HasPrefix(text, FlagA \o <<Quote>>)
            /\ Unclosed(TrimPrefix(text, FlagA \o <<Quote>>)))
              => /\ Returned
                 /\ GetString(ret[1], <<"a">>) =
                       Unescaped(TrimPrefix(text, FlagA \o <<Quote>>))
                 /\ ret[1].Positional = <<>>
                 /\ ret[1].Rest = <<>>

\* the text "a \" a\ with no closing quote was parsed: positional 0 is
\* a " a\, the escaped quote and the last backslash kept
C26_Witness ==
    /\ Returned
    /\ text = <<Quote, "a", " ", Backslash, Quote, "a", Backslash>>
    /\ GetPositionalString(ret[1], 0) = <<"a", " ", Quote, "a", Backslash>>
    /\ pos = Len(text)

(***************************************************************************)
(* The whitespace-splitting ParseArguments alone (part_000 lines 873-992),  *)
(* called as ParseArguments(text, defs, nil) with schemas that declare a    *)
(* Variadic definition.                                                     *)
(***************************************************************************)
words == <<"w", "o", "r", "d", "s">>

Variadic(name, type) == ArgumentDefinition(name, type, KindVariadic, FALSE, <<>>)

\* two positional definitions and a variadic one
SchemaTwoThenVariadic ==
    <<Positional(first, TypeString, FALSE), Positional(second, TypeString, FALSE),
      Variadic(words, TypeString)>>

\* the echo command, part_004 lines 59-93
SchemaEchoVariadic == SchemaEcho \o <<Variadic(words, TypeString)>>

\* a variadic definition of type Int and two flags
SchemaVariadicInt ==
    <<Positional(first, TypeString, FALSE), Named(<<"b">>, TypeBool, FALSE),
      Named(<<"n">>, TypeInt, FALSE), Variadic(words, TypeInt)>>

FieldsSchemas ==
    {SchemaTwoThenVariadic, SchemaEchoVariadic, SchemaVariadicInt, SchemaBasicPositional}

FieldsWords == {<<>>, <<"a">>, <<"1">>, <<"-", "b">>, <<"-", "n">>, false}

FieldsTexts == TextsOf(FieldsWords, MaxWords)

InitFields ==
    /\ text \in FieldsTexts
    /\ defs \in FieldsSchemas
    /\ msg = <<>>
    /\ pos = 0
    /\ positionalCount = 0
    /\ positionalIndex = 0
    /\ args = EmptyArguments
    /\ ret = <<>>
    /\ err = <<>>
    /\ pc = "start"
    /\ variant = "fields"
    /\ update = <<>>
    /\ command = <<>>
    /\ ctx = <<>>
    /\ outcome = <<>>

NextFields == ParseArgumentsFields

SpecFields == InitFields /\ [][NextFields]_vars

\* the parts of the text
Parts == Fields(text, <<>>, <<>>)

\* no part of the text starts with a dash: every part is a bare token
AllBare == \A i \in 1..Len(Parts) : ~HasPrefix(Parts[i], <<"-">>)

VariadicDefs == SelectSeq(defs, LAMBDA d : d.Kind = KindVariadic)

\* the smaller of two numbers
Min(a, b) == IF a < b THEN a ELSE b

\* C27: in the whitespace-splitting variant the bare tokens fill the
\* Positional definitions in declaration order until every slot is filled,
\* and only the tokens after that are appended, in input order and coerced
\* with the type of the Variadic definition, to the Variadic sequence: with
\* two Positional definitions and a Variadic one, `a b c` binds a and b and
\* collects only c.
C27_PositionalsThenVariadic ==
    (Returned /\ AllBare) =>
        LET filled == Min(Len(Parts), Len(PositionalDefs))
        IN /\ Len(ret[1].Positional) = filled
           /\ \A k \in 1..filled :
                 /\ ret[1].Positional[k].Name = PositionalDefs[k].Name
                 /\ ret[1].Positional[k].RawValue = Parts[k]
           /\ VariadicDefs # <<>> =>
                 /\ Len(ret[1].Variadic) = Len(Parts) - filled
                 /\ \A k \in 1..(Len(Parts) - filled) :
                       /\ ret[1].Variadic[k].RawValue = Parts[filled + k]
                       /\ ret[1].Variadic[k].Value =
                             parseValueFields(Parts[filled + k], VariadicDefs[1].Type)[1]

\* `a 1 a` was parsed against two Positional definitions and a Variadic one:
\* only a is positional, 1 and a are collected
C27_SecondTokenCollected ==
    /\ Returned
    /\ defs = SchemaTwoThenVariadic
    /\ text = <<"a", " ", "1", " ", "a">>
    /\ Len(ret[1].Positional) = 1
    /\ Len(ret[1].Variadic) = 2
    /\ ret[1].Variadic[1].RawValue = <<"1">>

\* the part of C27 that the code keeps: the first bare token is bound to the
\* first Positional definition, and every later one is appended, in input
\* order and coerced, to the Variadic sequence or dropped when no Variadic
\* definition is declared
C27_FirstThenVariadic ==
    (Returned /\ AllBare) =>
        LET filled == Min(Len(Parts), Min(1, Len(PositionalDefs)))
        IN /\ Len(ret[1].Positional) = filled
           /\ \A k \in 1..filled :
                 /\ ret[1].Positional[k].Name = PositionalDefs[k].Name
                 /\ ret[1].Positional[k].RawValue = Parts[k]
           /\ VariadicDefs # <<>> =>
                 /\ Len(ret[1].Variadic) = Len(Parts) - filled
                 /\ \A k \in 1..(Len(Parts) - filled) :
                       /\ ret[1].Variadic[k].RawValue = Parts[filled + k]
                       /\ ret[1].Variadic[k].Value =
                             parseValueFields(Parts[filled + k], VariadicDefs[1].Type)[1]
           /\ VariadicDefs = <<>> => ret[1].Variadic = <<>>

\* part i of the text is the flag -b and no other part starts with a dash
FlagBAt(i) ==
    /\ i \in 1..Len(Parts)
    /\ Parts[i] = <<"-", "b">>
    /\ \A j \in 1..Len(Parts) : j # i => ~HasPrefix(Parts[j], <<"-">>)

\* the bare values bound, positional first
BoundBare(a) == a.Positional \o a.Variadic

\* C28: in the whitespace-splitting variant a declared Bool flag followed by
\* a token that parses as a boolean takes that token as its value and
\* consumes it; followed by a token that does not, or by none, it is bound
\* to true and the token is not consumed: it is bound as the positional or
\* variadic value its place among the bare tokens gives it.
C28_BoolFlagInlineValue ==
    (Returned /\ defs \in {SchemaEchoVariadic, SchemaVariadicInt}) =>
        /\ \A i \in 1..Len(Parts) :
            FlagBAt(i) =>
                LET inline == i < Len(Parts) /\ ParseBoolOk(Parts[i + 1])
                    flag == ret[1].Named[<<"b">>]
                IN /\ <<"b">> \in DOMAIN ret[1].Named
                   /\ IF inline
                      THEN /\ flag.Value = BoolValue(ParseBoolVal(Parts[i + 1]))
                           /\ flag.RawValue = Parts[i + 1]
                           /\ Len(BoundBare(ret[1])) = Len(Parts) - 2
                           /\ \A k \in 1..(i - 1) : BoundBare(ret[1])[k].RawValue = Parts[k]
                           /\ \A k \in i..(Len(Parts) - 2) :
                                 BoundBare(ret[1])[k].RawValue = Parts[k + 2]
                      ELSE /\ flag.Value = BoolValue(TRUE)
                           /\ Len(BoundBare(ret[1])) = Len(Parts) - 1
                           /\ \A k \in 1..(i - 1) : BoundBare(ret[1])[k].RawValue = Parts[k]
                           /\ \A k \in i..(Len(Parts) - 1) :
                                 BoundBare(ret[1])[k].RawValue = Parts[k + 1]
        /\ \A i \in 1..(Len(Parts) - 1) :
              (/\ Parts[i] = <<"-", "b">>
               /\ Parts[i + 1] = <<"-", "n">>
               /\ \A j \in 1..Len(Parts) : j # i => Parts[j] # <<"-", "b">>)
                  => /\ <<"b">> \in DOMAIN ret[1].Named
                     /\ ret[1].Named[<<"b">>].Value = BoolValue(TRUE)
                     /\ <<"n">> \in DOMAIN ret[1].Named

\* `-b false a` was parsed against the schema of echo: b is false, false is
\* consumed and a is the positional value
C28_Witness ==
    /\ Returned
    /\ defs = SchemaEchoVariadic
    /\ text = <<"-", "b", " ">> \o false \o <<" ", "a">>
    /\ ret[1].Named[<<"b">>].Value = BoolValue(FALSE)
    /\ Len(ret[1].Positional) = 1
    /\ ret[1].Positional[1].RawValue = <<"a">>
    /\ ret[1].Variadic = <<>>

\* `-b a 1` was parsed: a does not parse as a boolean, b is true and a is
\* the positional value
C28_TokenKept ==
    /\ Returned
    /\ defs = SchemaEchoVariadic
    /\ text = <<"-", "b", " ", "a", " ", "1">>
    /\ ret[1].Named[<<"b">>].Value = BoolValue(TRUE)
    /\ ret[1].Positional[1].RawValue = <<"a">>
    /\ Len(ret[1].Variadic) = 1

\* the raw string is a decimal number as fmt.Sprint writes it: digits only,
\* no sign, no leading zero
Canonical(raw) ==
    /\ raw # <<>>
    /\ \A i \in 1..Len(raw) : raw[i] \in Digits
    /\ Len(raw) > 1 => raw[1] # "0"

EntityMethods == {"ResolveEntity", "ResolvePositionalEntity", "ResolveRestEntity"}

C29_LeadingZeroResolves ==
    /\ pc = "resolved"
    /\ outcome[1].function = "ResolveEntity"
    /\ text = <<"0", "4", "2">>
    /\ outcome[1].user = <<Handle42>>

(***************************************************************************)
(* Defaults (part_000 lines 525-548 and 961-988; the getters, lines         *)
(* 163-219): both variants called with the schema of translate (lang.go     *)
(* lines 57-82) and the schema of echo.                                     *)
(***************************************************************************)
to == <<"t", "o">>
count == <<"c", "o", "u", "n", "t">>
English == <<"E", "n", "g", "l", "i", "s", "h">>

\* the translate command, lang.go lines 57-82
SchemaTranslate ==
    <<ArgumentDefinition(to, TypeString, KindNamed, FALSE, <<StringValue(English)>>),
      ArgumentDefinition(count, TypeInt, KindNamed, FALSE, <<IntValue(1)>>),
      ArgumentDefinition(silent, TypeBool, KindNamed, FALSE, <<BoolValue(FALSE)>>)>>

DefaultSchemas == {SchemaTranslate, SchemaEcho}

DefaultWords ==
    {<<>>, <<"a">>, <<"1">>, <<"-">> \o to, <<"-">> \o count, <<"-">> \o silent,
     <<"-", "n">>}

DefaultTexts == TextsOf(DefaultWords, MaxWords)

InitDefaults ==
    /\ text \in DefaultTexts
    /\ defs \in DefaultSchemas
    /\ msg = <<>>
    /\ variant \in {"quote", "fields"}
    /\ pos = 0
    /\ positionalCount = 0
    /\ positionalIndex = 0
    /\ args = EmptyArguments
    /\ ret = <<>>
    /\ err = <<>>
    /\ pc = "start"
    /\ update = <<>>
    /\ command = <<>>
    /\ ctx = <<>>
    /\ outcome = <<>>

SpecDefaults == InitDefaults /\ [][NextReply]_vars

\* the text writes the flag of the name: one of its parts is -name
Written(name) == \E i \in 1..Len(Parts) : Parts[i] = <<"-">> \o name

\* the definitions that are not Required and declare a Default
OptionalWithDefault ==
    {i \in 1..Len(defs) : ~defs[i].Required /\ defs[i].Default # <<>>}

C30_WitnessFields ==
    /\ Returned
    /\ variant = "fields"
    /\ defs = SchemaTranslate
    /\ text = <<"a">>
    /\ ret[1].Named = <<>>
    /\ GetString(ret[1], to) = <<>>
    /\ GetInt(ret[1], count) = 0

====
